---------------------------- MODULE Spec2Model ----------------------------
(***************************************************************************)
(* A model of the MIB parser of go-mib-parser: parser.Parse, the recursive *)
(* descent rdParser.parseModule with its pending-reference fixed point and *)
(* the regex sweep augmentFromSource.                                      *)
(*                                                                         *)
(* The input of Parse is modelled at token granularity: a source text is   *)
(* the sequence of the tokens lexer.Next returns for it, each token        *)
(* carrying the source line it starts on.  The line-anchored regular       *)
(* expressions of augmentFromSource are evaluated on that sequence: a name *)
(* matches when it is the first token of its line in the cleaned text and  *)
(* the keyword tokens follow it.                                           *)
(***************************************************************************)
EXTENDS Integers, Sequences, FiniteSets, TLC

(***************************************************************************)
(* Bounds of the model.                                                    *)
(***************************************************************************)
\* longest module body, in declarations, drawn from ResolvePool
MaxDecls == 3
\* longest module body, in declarations, drawn from the whole Pool
MaxMixed == 2
\* longest INDEX list, in tokens between its braces
MaxIndexToks == 3

(***************************************************************************)
(* Tokens (lexer.Token).  Line and Col are filled in when a text is laid   *)
(* out (Lay).                                                              *)
(***************************************************************************)
Tok(type, text, int) ==
  [Type |-> type, Text |-> text, Int |-> int, Line |-> 0, Col |-> 0]

Id(s) == Tok("Ident", s, 0)

Num(n) == Tok("Number", "", n)

Str(s) == Tok("String", s, 0)

LBrace == Tok("LBrace", "{", 0)

RBrace == Tok("RBrace", "}", 0)

Semi == Tok("Semicolon", ";", 0)

Comma == Tok("Comma", ",", 0)

LParen == Tok("LParen", "(", 0)

RParen == Tok("RParen", ")", 0)

Dot == Tok("Dot", ".", 0)

CCE == Tok("ColonColonEq", "::=", 0)

EOFTok == Tok("EOF", "", 0)

(***************************************************************************)
(* equalFold: ASCII case-insensitive comparison.  Fold gives the lower-    *)
(* case form of the spellings that occur in the modelled inputs with an    *)
(* upper-case letter.                                                      *)
(***************************************************************************)
Fold(s) ==
  CASE s = "END" -> "end"
    [] s = "BEGIN" -> "begin"
    [] s = "DEFINITIONS" -> "definitions"
    [] s = "IMPORTS" -> "imports"
    [] s = "MACRO" -> "macro"
    [] s = "OBJECT" -> "object"
    [] s = "IDENTIFIER" -> "identifier"
    [] s = "OBJECT-TYPE" -> "object-type"
    [] s = "OBJECT-GROUP" -> "object-group"
    [] s = "NOTIFICATION-GROUP" -> "notification-group"
    [] s = "MODULE-COMPLIANCE" -> "module-compliance"
    [] s = "AGENT-CAPABILITIES" -> "agent-capabilities"
    [] s = "MODULE-IDENTITY" -> "module-identity"
    [] s = "OBJECT-IDENTITY" -> "object-identity"
    [] s = "TEXTUAL-CONVENTION" -> "textual-convention"
    [] s = "NOTIFICATION-TYPE" -> "notification-type"
    [] s = "SYNTAX" -> "syntax"
    [] s = "ACCESS" -> "access"
    [] s = "MAX-ACCESS" -> "max-access"
    [] s = "STATUS" -> "status"
    [] s = "DESCRIPTION" -> "description"
    [] s = "INDEX" -> "index"
    [] s = "IMPLIED" -> "implied"
    [] s = "OBJECTS" -> "objects"
    [] s = "DISPLAY-HINT" -> "display-hint"
    [] s = "LAST-UPDATED" -> "last-updated"
    [] s = "ORGANIZATION" -> "organization"
    [] s = "CONTACT-INFO" -> "contact-info"
    [] OTHER -> s

equalFold(a, b) == Fold(a) = Fold(b)

(***************************************************************************)
(* Source fragments the inputs are assembled from.                         *)
(***************************************************************************)
OidRef(parent, idx) == <<CCE, LBrace, Id(parent), Num(idx), RBrace>>

Alias(n, parent, idx) == <<Id(n), Id("OBJECT"), Id("IDENTIFIER")>> \o OidRef(parent, idx)

AliasAbs(n) == <<Id(n), Id("OBJECT"), Id("IDENTIFIER"), CCE, LBrace, Num(1), Num(3), RBrace>>

ObjType(n, parent, idx) ==
  <<Id(n), Id("OBJECT-TYPE"), Id("SYNTAX"), Id("INTEGER"), Id("MAX-ACCESS"), Id("read-only"),
    Id("STATUS"), Id("current"), Id("DESCRIPTION"), Str("d")>> \o OidRef(parent, idx)

Group(kw, n, parent, idx) ==
  <<Id(n), Id(kw), Id("STATUS"), Id("current")>> \o OidRef(parent, idx)

ModIdent(n, parent, idx) ==
  <<Id(n), Id("MODULE-IDENTITY"), Id("ORGANIZATION"), Str("o")>> \o OidRef(parent, idx)

ObjIdent(n, parent, idx) ==
  <<Id(n), Id("OBJECT-IDENTITY"), Id("STATUS"), Id("current")>> \o OidRef(parent, idx)

Notif(kw, n, parent, idx) ==
  <<Id(n), Id(kw), Id("OBJECTS"), LBrace, Id("b"), RBrace, Id("STATUS"), Id("current")>>
    \o OidRef(parent, idx)

TextConv(n) ==
  <<Id(n), Id("TEXTUAL-CONVENTION"), Id("STATUS"), Id("current"), Id("SYNTAX"), Id("INTEGER")>>

TextConvAssign(n) ==
  <<Id(n), CCE, Id("TEXTUAL-CONVENTION"), Id("DISPLAY-HINT"), Str("h"), Id("SYNTAX"), Id("INTEGER")>>

Macro(n) == <<Id(n), Id("MACRO"), CCE, Id("BEGIN"), Id("x"), Id("END")>>

Mumble(n) == <<Id(n), Id("MUMBLE"), CCE, LBrace, Num(1), LBrace, Num(2), RBrace, RBrace>>

Bare(n) == <<Id(n), Id("MUMBLE")>>

SeqAssign(n) == <<Id(n), CCE, Id("SEQUENCE"), LBrace, Id("x"), Id("INTEGER"), RBrace>>

\* a fragment: its tokens, and whether it starts on a line of its own
Frag(toks, nl) == [toks |-> toks, nl |-> nl]

\* the declarations the resolution of parent references is exercised with
ResolvePool ==
  { Frag(Alias("a", "b", 1), TRUE),
    Frag(Alias("b", "c", 1), TRUE),
    Frag(Alias("c", "mib-2", 7), TRUE),
    Frag(Alias("a", "zz", 1), TRUE),
    Frag(ObjType("a", "b", 2), TRUE),
    Frag(Group("OBJECT-GROUP", "g", "a", 3), TRUE) }

\* one declaration or more of every top-level construct
Pool ==
  ResolvePool \cup
  { Frag(Alias("org", "iso", 5), TRUE),
    Frag(AliasAbs("c"), TRUE),
    Frag(ObjType("b", "mib-2", 2), FALSE),
    Frag(Group("NOTIFICATION-GROUP", "g", "zz", 1), TRUE),
    Frag(Group("MODULE-COMPLIANCE", "g", "mib-2", 4), TRUE),
    Frag(Group("AGENT-CAPABILITIES", "a", "mib-2", 5), TRUE),
    Frag(ModIdent("a", "b", 1), TRUE),
    Frag(ModIdent("m", "mib-2", 3), TRUE),
    Frag(ObjIdent("b", "c", 1), TRUE),
    Frag(Notif("NOTIFICATION-TYPE", "n", "mib-2", 4), TRUE),
    Frag(Notif("NOTIFICATION-TYPE", "n", "c", 1), FALSE),
    Frag(Notif("notification-type", "n", "mib-2", 4), TRUE),
    Frag(TextConv("T"), TRUE),
    Frag(TextConvAssign("T"), TRUE),
    Frag(Macro("M"), TRUE),
    Frag(Mumble("x"), TRUE),
    Frag(Bare("x"), TRUE),
    Frag(SeqAssign("S"), TRUE),
    Frag(<<Semi>>, TRUE),
    Frag(<<Id("END")>>, TRUE) }

\* declarations the parser gives up on, one for each kind of complaint
BrokenPool ==
  { <<Id("a"), Id("OBJECT"), Id("x")>>,
    <<Id("a"), Id("OBJECT"), Id("IDENTIFIER"), LBrace, Id("b"), Num(1), RBrace>>,
    <<Id("a"), Id("OBJECT"), Id("IDENTIFIER"), CCE, Id("b"), Num(1)>>,
    <<Id("a"), Id("OBJECT"), Id("IDENTIFIER"), CCE, LBrace, Id("b"), Num(1)>>,
    <<Id("a"), Id("OBJECT-TYPE"), Id("SYNTAX"), Id("INTEGER")>>,
    <<Id("a"), Id("OBJECT-TYPE"), Id("DESCRIPTION"), Id("x")>>,
    <<Id("a"), Id("OBJECT-TYPE"), Id("INDEX"), Num(1)>>,
    <<Id("a"), Id("OBJECT-TYPE"), Id("INDEX"), LBrace, Id("b"), Id("c"), RBrace>>,
    <<Id("a"), Id("OBJECT-TYPE"), Id("INDEX"), LBrace, Num(1), RBrace>>,
    <<Id("a"), Id("OBJECT-TYPE"), CCE, Id("b")>>,
    <<Id("g"), Id("OBJECT-GROUP"), CCE, Id("b")>>,
    <<Id("g"), Id("AGENT-CAPABILITIES"), CCE, LBrace, Id("b"), Num(1), Semi>>,
    <<Id("g"), Id("MODULE-COMPLIANCE"), Id("STATUS")>>,
    <<Id("m"), Id("MODULE-IDENTITY"), Id("ORGANIZATION"), Str("o")>>,
    <<Id("b"), Id("OBJECT-IDENTITY"), CCE, LBrace, Num(1), Num(3), Semi>>,
    <<Id("T"), Id("TEXTUAL-CONVENTION"), Id("STATUS"), Id("current")>>,
    <<Id("T"), CCE, Id("TEXTUAL-CONVENTION"), Id("STATUS"), Id("current")>>,
    <<Id("n"), Id("NOTIFICATION-TYPE"), Id("OBJECTS"), Id("b")>>,
    <<Id("n"), Id("NOTIFICATION-TYPE"), Id("OBJECTS"), LBrace, Id("b"), Semi>>,
    <<Id("n"), Id("NOTIFICATION-TYPE"), CCE, Num(1)>> }

\* unrecognized constructs whose body is a brace-balanced group
JunkPool ==
  { Mumble("x"),
    <<Id("garbage"), Id("MUMBLE"), CCE, LBrace, Num(1), Num(2), Num(3),
      LBrace, Num(4), Num(5), RBrace, RBrace>>,
    <<Id("x"), Id("MUMBLE"), Id("STATUS"), Id("current"), CCE, LBrace, Id("y"), Num(1), RBrace>>,
    <<Id("x"), Id("MUMBLE"), LBrace, LBrace, Str("s"), RBrace, Comma, LBrace, RBrace, RBrace>>,
    <<Id("x"), LBrace, Id("y"), Id("z"), RBrace>>,
    SeqAssign("S") }

\* two OID aliases, the second below the first, in both orders
AliasPairs ==
  { <<Alias("c", "mib-2", 7), Alias("b", "c", 1)>>,
    <<Alias("b", "c", 1), Alias("c", "mib-2", 7)>> }

SeqsUpTo(S, n) == UNION { [1..k -> S] : k \in 0..n }

Bodies == SeqsUpTo(ResolvePool, MaxDecls) \cup SeqsUpTo(Pool, MaxMixed)

FullHeader == <<Id("X"), Id("DEFINITIONS"), CCE, Id("BEGIN")>>

ImportsBlock == <<Id("IMPORTS"), Id("y"), Id("FROM"), Id("Z"), Semi>>

\* module headers: complete, or with one of the fixed tokens absent
Headers ==
  { FullHeader,
    <<Id("DEFINITIONS"), CCE, Id("BEGIN")>>,
    <<CCE, Id("BEGIN")>>,
    <<Id("X"), CCE, Id("BEGIN")>>,
    <<Id("X"), Id("DEFINITIONS"), Id("BEGIN")>>,
    <<Id("X"), Id("DEFINITIONS"), CCE>> }

\* the number of characters of the token in the text
Width(t) ==
  IF t.Type = "Number" THEN Len(ToString(t.Int))
  ELSE IF t.Type = "String" THEN Len(t.Text) + 2
  ELSE Len(t.Text)

\* identifiers, numbers and strings carry the column they start at; the
\* tokens made by mk carry the column the lexer has reached after them
StartsAt(t) == t.Type \in {"Ident", "Number", "String"}

RECURSIVE Place(_, _, _, _)
\* the tokens ts[k..] written on one line from column col on, one blank apart
Place(ts, k, line, col) ==
  IF k > Len(ts) THEN <<>>
  ELSE <<[ts[k] EXCEPT !.Line = line,
                       !.Col = IF StartsAt(ts[k]) THEN col ELSE col + Width(ts[k])]>>
       \o Place(ts, k + 1, line, col + Width(ts[k]) + 1)

RECURSIVE Span(_, _)
\* the columns the tokens ts[k..] take on one line, blanks included
Span(ts, k) == IF k > Len(ts) THEN 0 ELSE Width(ts[k]) + 1 + Span(ts, k + 1)

RECURSIVE Lay(_, _, _, _)
\* the token sequence of the fragments frags[i..]; the previous fragment
\* ended on line, and the next token of that line would start at col
Lay(frags, i, line, col) ==
  IF i > Len(frags) THEN <<>>
  ELSE LET ln == IF frags[i].nl THEN line + 1 ELSE line
           c == IF frags[i].nl THEN 1 ELSE col
           ts == frags[i].toks
       IN Place(ts, 1, ln, c) \o Lay(frags, i + 1, ln, c + Span(ts, 1))

EndLine == <<Frag(<<Id("END")>>, TRUE)>>

\* modules with an unrecognized construct between two OID aliases
JunkInputs ==
  { Lay(<<Frag(FullHeader, TRUE), Frag(pair[1], TRUE), Frag(junk, nl), Frag(pair[2], TRUE)>>
          \o EndLine, 1, 0, 1) :
      pair \in AliasPairs, junk \in JunkPool, nl \in BOOLEAN }

\* the five clauses of an OBJECT-TYPE
Clauses ==
  <<  <<Id("SYNTAX"), Id("INTEGER")>>,
      <<Id("MAX-ACCESS"), Id("read-only")>>,
      <<Id("STATUS"), Id("current")>>,
      <<Id("DESCRIPTION"), Str("d")>>,
      <<Id("INDEX"), LBrace, Id("b"), RBrace>>  >>

\* the orders the five clauses can be written in
ClauseOrders == { f \in [1..Len(Clauses) -> 1..Len(Clauses)] : \A i, j \in DOMAIN f : f[i] = f[j] => i = j }

\* an OBJECT-TYPE with its clauses in the order f
ObjTypeIn(f) ==
  <<Id("a"), Id("OBJECT-TYPE")>> \o Clauses[f[1]] \o Clauses[f[2]] \o Clauses[f[3]]
    \o Clauses[f[4]] \o Clauses[f[5]] \o OidRef("mib-2", 2)

\* a module around one OBJECT-TYPE, for every order of its clauses
ClauseOrderInputs ==
  { Lay(<<Frag(FullHeader, TRUE), Frag(ObjTypeIn(f), TRUE)>> \o EndLine, 1, 0, 1) :
      f \in ClauseOrders }

\* a declaration without its closing '::= { parent index }'
Unref(ts) == SubSeq(ts, 1, Len(ts) - Len(OidRef("x", 0)))

\* the forms of a reference between the braces: a run of numbers, 'p n',
\* 'p ( n )', 'M . p n' and 'p'
RefForms ==
  { <<Num(1)>>,
    <<Num(1), Num(3), Num(6)>>,
    <<Id("mib-2"), Num(7)>>,
    <<Id("mib-2"), LParen, Num(7), RParen>>,
    <<Id("M"), Dot, Id("mib-2"), Num(7)>>,
    <<Id("mib-2")>> }

\* one declaration of every construct that ends in '::= { ... }'
RefHeads ==
  { Unref(Alias("n", "x", 0)), Unref(ObjType("n", "x", 0)), Unref(ModIdent("n", "x", 0)),
    Unref(ObjIdent("n", "x", 0)), Unref(Notif("NOTIFICATION-TYPE", "n", "x", 0)) }
  \cup
  { Unref(Group(kw, "n", "x", 0)) :
      kw \in {"OBJECT-GROUP", "NOTIFICATION-GROUP", "MODULE-COMPLIANCE", "AGENT-CAPABILITIES"} }

\* a module around one declaration, for every construct and reference form
RefInputs ==
  { Lay(<<Frag(FullHeader, TRUE), Frag(h \o <<CCE, LBrace>> \o f \o <<RBrace>>, TRUE)>>
          \o EndLine, 1, 0, 1) :
      h \in RefHeads, f \in RefForms }

\* the tokens an INDEX list is written with
IndexToks == {Id("a"), Id("b"), Id("IMPLIED"), Comma, Num(1)}

\* an OBJECT-TYPE with the INDEX list toks
ObjTypeIndexed(toks) ==
  <<Id("a"), Id("OBJECT-TYPE"), Id("SYNTAX"), Id("INTEGER"), Id("INDEX"), LBrace>>
    \o toks \o <<RBrace>> \o OidRef("mib-2", 2)

\* a module around one OBJECT-TYPE, for every INDEX list
IndexInputs ==
  { Lay(<<Frag(FullHeader, TRUE), Frag(ObjTypeIndexed(toks), TRUE)>> \o EndLine, 1, 0, 1) :
      toks \in SeqsUpTo(IndexToks, MaxIndexToks) }

\* a module around two OBJECT-TYPEs, each under a known or an unknown parent
PairInputs ==
  { Lay(<<Frag(FullHeader, TRUE), Frag(ObjType("a", p, 2), TRUE), Frag(ObjType("b", q, 2), TRUE)>>
          \o EndLine, 1, 0, 1) :
      p \in {"mib-2", "zz"}, q \in {"mib-2", "zz"} }

\* declarations of the name a under a known parent and under the parent b,
\* and a declaration of b
RedeclPool ==
  { Alias("a", "b", 1), Alias("a", "mib-2", 7), Alias("b", "mib-2", 3),
    ObjType("a", "mib-2", 2), ObjType("a", "b", 2) }

\* a module around three of them
RedeclInputs ==
  { Lay(<<Frag(FullHeader, TRUE), Frag(x, TRUE), Frag(y, TRUE), Frag(z, TRUE)>>
          \o EndLine, 1, 0, 1) :
      x \in RedeclPool, y \in RedeclPool, z \in RedeclPool }

\* every input: a complete module around each body; a module with an IMPORTS
\* block or without the closing END; a module with a broken header; a module
\* with a broken declaration, alone or after a sound one; a module with an
\* unrecognized construct between two declarations; an OBJECT-TYPE with its
\* clauses in every order; no text
Inputs ==
  { Lay(<<Frag(FullHeader, TRUE)>> \o body \o EndLine, 1, 0, 1) : body \in Bodies }
  \cup
  { Lay(<<Frag(FullHeader, TRUE)>> \o imp \o body \o tail, 1, 0, 1) :
      imp \in {<<>>, <<Frag(ImportsBlock, TRUE)>>, <<Frag(ImportsBlock, FALSE)>>},
      body \in SeqsUpTo(Pool, 1),
      tail \in {<<>>, EndLine} }
  \cup
  { Lay(<<Frag(h, TRUE)>> \o body \o EndLine, 1, 0, 1) :
      h \in Headers, body \in SeqsUpTo(ResolvePool, 1) }
  \cup
  { Lay(<<Frag(FullHeader, TRUE)>> \o body \o <<Frag(broken, TRUE)>> \o EndLine, 1, 0, 1) :
      body \in SeqsUpTo(ResolvePool, 1), broken \in BrokenPool }
  \cup JunkInputs
  \cup ClauseOrderInputs
  \cup RefInputs
  \cup IndexInputs
  \cup PairInputs
  \cup RedeclInputs
  \cup {<<>>}

\* a chain of three declarations written from the leaf to the root
ChainBody ==
  <<Frag(ObjType("a", "b", 2), TRUE), Frag(Alias("b", "c", 1), TRUE),
    Frag(Alias("c", "mib-2", 7), TRUE)>>

\* the inputs of repeated calls: a module around no or one declaration, with
\* and without the closing END; a broken declaration; the chain
CallInputs ==
  { Lay(<<Frag(FullHeader, TRUE)>> \o body \o tail, 1, 0, 1) :
      body \in SeqsUpTo(Pool, 1), tail \in {<<>>, EndLine} }
  \cup
  { Lay(<<Frag(FullHeader, TRUE), Frag(broken, TRUE)>> \o EndLine, 1, 0, 1) :
      broken \in BrokenPool }
  \cup
  { Lay(<<Frag(FullHeader, TRUE)>> \o ChainBody \o EndLine, 1, 0, 1) }

\* the inputs of the call made in between: modules that declare a bootstrap
\* name anew and a name other modules refer to, and a module that fails
OtherInputs ==
  { Lay(<<Frag(FullHeader, TRUE), Frag(Alias("mib-2", "iso", 9), TRUE),
          Frag(Alias("c", "mib-2", 7), TRUE)>> \o EndLine, 1, 0, 1),
    Lay(<<Frag(FullHeader, TRUE), Frag(Alias("org", "iso", 5), TRUE),
          Frag(ObjType("b", "org", 2), TRUE)>> \o EndLine, 1, 0, 1),
    Lay(<<Frag(FullHeader, TRUE), Frag(Alias("iso", "zz", 1), TRUE),
          Frag(<<Id("a"), Id("OBJECT"), Id("x")>>, TRUE)>> \o EndLine, 1, 0, 1) }

(***************************************************************************)
(* State of one Parse call: the rdParser and the ModuleIR it builds.       *)
(***************************************************************************)
VARIABLES
  src,                 \* rdParser.src / the lexer's input, as tokens
  pos,                 \* index in src of the current token rdParser.tok
  pc,                  \* where Parse is: start, header, body, resolve, augment, done,
                       \* error (parseModule returned an error), failed
  err,                 \* the error parseModule returned, "" when none
  ret,                 \* what Parse returned: <<>> before it returns
  rounds,              \* history: rounds of the dispatcher loop begun so far
  passes,              \* history: passes over the pending references made so far
  fired,               \* history: the pending references whose apply was called, each
                       \* with the base it was called with
  modName,             \* ModuleIR.Name
  NodesByName,         \* ModuleIR.NodesByName: name -> OID
  ObjectsByName,       \* ModuleIR.ObjectsByName: name -> ObjectTypeIR
  ModuleIdentity,      \* ModuleIR.ModuleIdentity: <<>> (nil) or <<record>>
  ObjectIdentities,    \* ModuleIR.ObjectIdentities
  TextualConventions,  \* ModuleIR.TextualConventions
  NotificationTypes,   \* ModuleIR.NotificationTypes
  pend,                \* rdParser.pend: the queue of pending references
  waiting,             \* the inputs of the Parse calls still to be made
  parked,              \* <<>> or the state of a concurrent Parse call that is not scheduled
  results,             \* the inputs and results of the Parse calls that returned earlier
  apiObjects,          \* Module.ObjectsByName of the module the lookups are made on
  apiQuery,            \* the OID q that is rendered and looked up
  apiOut,               \* what the rendering and the lookups returned, <<>> before they did
  lex,                 \* the Lexer: input, pos, line, col, peeked
  stream               \* history: the tokens Lexer.Next has returned, each with the
                       \* offset in the input of its first character

vars == <<src, pos, pc, err, ret, rounds, passes, fired, modName, NodesByName, ObjectsByName, ModuleIdentity,
          ObjectIdentities, TextualConventions, NotificationTypes, pend,
          waiting, parked, results, apiObjects, apiQuery, apiOut, lex, stream>>

\* the calls of Parse
queueVars == <<waiting, parked, results>>

\* the public API on a module
apiVars == <<apiObjects, apiQuery, apiOut>>

\* the lexer run on its own
lexVars == <<lex, stream>>

\* what lies outside a Parse call
callVars == <<queueVars, apiVars, lexVars>>

\* no lexer has been constructed
NoLexer == [input |-> "", pos |-> 0, line |-> 1, col |-> 1, peeked |-> <<>>]

\* nothing rendered or looked up yet
NoAnswers == [text |-> <<>>, dotted |-> <<>>, byOid |-> <<>>, byString |-> <<>>]

modVars == <<modName, NodesByName, ObjectsByName, ModuleIdentity,
             ObjectIdentities, TextualConventions, NotificationTypes>>

EmptyMap == [x \in {} |-> <<>>]

\* m[k] = v of a Go map
Put(m, k, v) == [x \in (DOMAIN m) \cup {k} |-> IF x = k THEN v ELSE m[x]]

(***************************************************************************)
(* Token access: rdParser.tok, next, accept, acceptIdent, isIdent.         *)
(* Lexer.Next returns EOF again and again at the end of the input.         *)
(***************************************************************************)
\* the EOF token: mk at the end of the text, which ends with its last token
EndOfText ==
  IF Len(src) = 0 THEN [EOFTok EXCEPT !.Line = 1, !.Col = 1]
  ELSE LET t == src[Len(src)]
       IN [EOFTok EXCEPT !.Line = t.Line,
                         !.Col = IF StartsAt(t) THEN t.Col + Width(t) ELSE t.Col]

Cur(p) == IF p <= Len(src) THEN src[p] ELSE EndOfText

Adv(p) == IF p > Len(src) THEN p ELSE p + 1

isIdent(p, s) == Cur(p).Type = "Ident" /\ equalFold(Cur(p).Text, s)

isType(p, t) == Cur(p).Type = t

(***************************************************************************)
(* parseParentRef and parseOidAssignmentInsideBraces                       *)
(***************************************************************************)
\* the index closes with an optional ')'
closeParen(p, parent, index) ==
  [pos |-> IF isType(p, "RParen") THEN Adv(p) ELSE p, parent |-> parent, index |-> index]

\* after '(': an optional number, then the optional ')'
parenIndex(p, parent) ==
  IF isType(p, "Number") THEN closeParen(Adv(p), parent, Cur(p).Int)
  ELSE closeParen(p, parent, 0)

\* the index: '(' n ')' or n; 0 when neither is written
parentIndex(p, parent) ==
  IF isType(p, "LParen") THEN parenIndex(Adv(p), parent)
  ELSE IF isType(p, "Number") THEN [pos |-> Adv(p), parent |-> parent, index |-> Cur(p).Int]
  ELSE [pos |-> p, parent |-> parent, index |-> 0]

\* after the parent identifier: an optional '.' identifier replaces it
qualifiedParent(p, parent) ==
  IF isType(p, "Dot")
  THEN IF isType(Adv(p), "Ident") THEN parentIndex(Adv(Adv(p)), Cur(Adv(p)).Text)
       ELSE parentIndex(Adv(p), parent)
  ELSE parentIndex(p, parent)

parseParentRef(p) ==
  IF isType(p, "Ident") THEN qualifiedParent(Adv(p), Cur(p).Text)
  ELSE parentIndex(p, "")

RECURSIVE absRun(_, _)
\* the loop of parseOidAssignmentInsideBraces over a run of numbers
absRun(p, abs) ==
  IF isType(p, "Number") THEN absRun(Adv(p), Append(abs, Cur(p).Int))
  ELSE [pos |-> p, abs |-> abs]

\* the reference read inside the braces: absolute, or a parent and an index
AbsRef(r) == [pos |-> r.pos, parent |-> "", index |-> 0, abs |-> r.abs, hasAbs |-> TRUE]

SymRef(r) ==
  [pos |-> r.pos, parent |-> r.parent, index |-> r.index, abs |-> <<>>, hasAbs |-> FALSE]

parseOidAssignmentInsideBraces(p) ==
  IF isType(p, "Number") THEN AbsRef(absRun(p, <<>>)) ELSE SymRef(parseParentRef(p))

\* resolveOidBase: the parent counts as known only with a non-empty OID
resolveOidBase(nodes, name) == name \in DOMAIN nodes /\ Len(nodes[name]) > 0

(***************************************************************************)
(* parseUntilKeywords and parseTypeString.  The text is accumulated with   *)
(* single spaces between the pieces; no piece is blank, so the trimSpace   *)
(* at the end finds nothing to trim.                                       *)
(***************************************************************************)
Piece(t) ==
  IF t.Type = "Ident" THEN t.Text
  ELSE IF t.Type = "Number" THEN ToString(t.Int)
  ELSE IF t.Type = "String" THEN "\"" \o t.Text \o "\""
  ELSE t.Text

RECURSIVE untilLoop(_, _, _)
untilLoop(p, stop, acc) ==
  IF isType(p, "EOF") THEN [pos |-> p, acc |-> acc]
  ELSE IF isType(p, "Ident") /\ \E s \in stop : isIdent(p, s) THEN [pos |-> p, acc |-> acc]
  ELSE IF isType(p, "ColonColonEq") /\ "::=" \in stop THEN [pos |-> p, acc |-> acc]
  ELSE untilLoop(Adv(p), stop,
                 (IF acc # "" THEN acc \o " " ELSE acc) \o Piece(Cur(p)))

parseUntilKeywords(p, stop) == untilLoop(p, stop, "")

parseTypeString(p) ==
  parseUntilKeywords(p, {"ACCESS", "MAX-ACCESS", "STATUS", "DESCRIPTION", "INDEX", "::="})

(***************************************************************************)
(* skipDefinition: the position after the skipped construct                *)
(***************************************************************************)
RECURSIVE macroBody(_)
macroBody(p) ==
  IF isType(p, "EOF") THEN p
  ELSE IF isIdent(p, "END") THEN Adv(p)
  ELSE macroBody(Adv(p))

RECURSIVE skipLoop(_, _, _)
skipLoop(p, depth, depthStarted) ==
  IF isType(p, "EOF") THEN p
  ELSE IF isIdent(p, "END") THEN p
  ELSE IF isType(p, "LBrace") THEN skipLoop(Adv(p), depth + 1, TRUE)
  ELSE IF isType(p, "RBrace")
  THEN LET d == IF depth > 0 THEN depth - 1 ELSE depth
       IN IF depthStarted /\ d = 0 THEN Adv(p) ELSE skipLoop(Adv(p), d, depthStarted)
  ELSE skipLoop(Adv(p), depth, depthStarted)

RECURSIVE skipToEnd(_)
\* a skip that does not stop at the closing brace but runs on to the next END
skipToEnd(p) ==
  IF isType(p, "EOF") \/ isIdent(p, "END") THEN p ELSE skipToEnd(Adv(p))

skipDefinition(p) ==
  IF isIdent(p, "MACRO")
  THEN LET p1 == Adv(p)
       IN IF isType(p1, "ColonColonEq")
          THEN IF isIdent(Adv(p1), "BEGIN")
               THEN macroBody(Adv(Adv(p1)))
               ELSE skipLoop(Adv(p1), 0, FALSE)
          ELSE skipLoop(p1, 0, FALSE)
  ELSE skipLoop(p, 0, FALSE)

(***************************************************************************)
(* The clause readers of parseModule.  Each returns the position after the *)
(* construct, the record read, the parent reference written after '::='    *)
(* (ref) and the error description ("" when the construct was read).       *)
(***************************************************************************)
NoRef == [pos |-> 0, parent |-> "", index |-> 0, abs |-> <<>>, hasAbs |-> FALSE]

Fail(p, msg, rec) == [pos |-> p, err |-> msg, ref |-> NoRef, rec |-> rec]

\* the description of a missing '{' after the '::=' of the construct what
openMsg(what) ==
  IF what = "OBJECT IDENTIFIER" THEN "expected '{' in OBJECT IDENTIFIER assignment"
  ELSE IF what = "OBJECT-TYPE" THEN "expected '{' after '::=' in OBJECT-TYPE"
  ELSE "expected '{' after " \o what \o " '::='"

\* the description of a missing '}' after the reference of the construct what
closeMsg(what) ==
  IF what = "OBJECT IDENTIFIER" THEN "expected '}' in OBJECT IDENTIFIER assignment"
  ELSE IF what = "OBJECT-TYPE" THEN "expected '}' after OBJECT-TYPE OID ref"
  ELSE "expected '}' after " \o what \o " OID"

\* the '}' that closes the reference r
closeBrace(r, what, rec) ==
  IF ~isType(r.pos, "RBrace") THEN Fail(r.pos, closeMsg(what), rec)
  ELSE [pos |-> Adv(r.pos), err |-> "", ref |-> r, rec |-> rec]

\* '::=' has been accepted at p - 1: '{' parentRef-or-absolute '}'
oidAssignment(p, what, rec) ==
  IF ~isType(p, "LBrace") THEN Fail(p, openMsg(what), rec)
  ELSE closeBrace(parseOidAssignmentInsideBraces(Adv(p)), what, rec)

\* the same for the group-like constructs, which call parseParentRef
groupAssignment(p, what) ==
  IF ~isType(p, "LBrace") THEN Fail(p, openMsg(what), <<>>)
  ELSE closeBrace(SymRef(parseParentRef(Adv(p))), what, <<>>)

RECURSIVE indexListKeepsImplied(_, _)
\* the INDEX list after '{', with IMPLIED stored as an entry
indexListKeepsImplied(p, idx) ==
  IF isType(p, "Ident")
  THEN LET idx1 == Append(idx, Cur(p).Text)
           p1 == Adv(p)
       IN IF equalFold(Cur(p).Text, "IMPLIED") THEN indexListKeepsImplied(p1, idx1)
          ELSE IF isType(p1, "Comma") THEN indexListKeepsImplied(Adv(p1), idx1)
          ELSE IF isType(p1, "RBrace") THEN [pos |-> Adv(p1), idx |-> idx1, err |-> ""]
          ELSE [pos |-> p1, idx |-> idx1, err |-> "expected ',' or '}' in INDEX list"]
  ELSE IF isType(p, "RBrace") THEN [pos |-> Adv(p), idx |-> idx, err |-> ""]
  ELSE [pos |-> p, idx |-> idx, err |-> "expected identifier in INDEX list"]

RECURSIVE indexList(_, _)
\* the INDEX list after '{'
indexList(p, idx) ==
  IF isType(p, "Ident")
  THEN IF equalFold(Cur(p).Text, "IMPLIED") THEN indexList(Adv(p), idx)
       ELSE LET idx1 == Append(idx, Cur(p).Text)
                p1 == Adv(p)
            IN IF isType(p1, "Comma") THEN indexList(Adv(p1), idx1)
               ELSE IF isType(p1, "RBrace") THEN [pos |-> Adv(p1), idx |-> idx1, err |-> ""]
               ELSE [pos |-> p1, idx |-> idx1, err |-> "expected ',' or '}' in INDEX list"]
  ELSE IF isType(p, "RBrace") THEN [pos |-> Adv(p), idx |-> idx, err |-> ""]
  ELSE [pos |-> p, idx |-> idx, err |-> "expected identifier in INDEX list"]

NewObjectType(name) ==
  [Name |-> name, OID |-> <<>>, Syntax |-> "", Access |-> "", Status |-> "",
   Description |-> "", Index |-> <<>>]

RECURSIVE objectTypeLoop(_, _)
objectTypeLoop(p, obj) ==
  IF isType(p, "EOF")
  THEN Fail(p, "unexpected EOF in OBJECT-TYPE for " \o obj.Name, obj)
  ELSE IF isIdent(p, "SYNTAX")
  THEN LET r == parseTypeString(Adv(p))
       IN objectTypeLoop(r.pos, [obj EXCEPT !.Syntax = r.acc])
  ELSE IF isIdent(p, "MAX-ACCESS") \/ isIdent(p, "ACCESS")
  THEN LET r == parseUntilKeywords(Adv(p), {"STATUS", "DESCRIPTION", "INDEX", "::="})
       IN objectTypeLoop(r.pos, [obj EXCEPT !.Access = r.acc])
  ELSE IF isIdent(p, "STATUS")
  THEN LET r == parseUntilKeywords(Adv(p), {"DESCRIPTION", "INDEX", "::="})
       IN objectTypeLoop(r.pos, [obj EXCEPT !.Status = r.acc])
  ELSE IF isIdent(p, "DESCRIPTION")
  THEN IF ~isType(Adv(p), "String")
       THEN Fail(Adv(p), "expected string after DESCRIPTION", obj)
       ELSE objectTypeLoop(Adv(Adv(p)), [obj EXCEPT !.Description = Cur(Adv(p)).Text])
  ELSE IF isIdent(p, "INDEX")
  THEN IF ~isType(Adv(p), "LBrace")
       THEN Fail(Adv(p), "expected '{' after INDEX", obj)
       ELSE LET r == indexList(Adv(Adv(p)), <<>>)
            IN IF r.err # "" THEN Fail(r.pos, r.err, obj)
               ELSE objectTypeLoop(r.pos, [obj EXCEPT !.Index = r.idx])
  ELSE IF isType(p, "ColonColonEq")
  THEN oidAssignment(Adv(p), "OBJECT-TYPE", obj)
  ELSE objectTypeLoop(Adv(p), obj)

RECURSIVE groupLoop(_, _)
\* OBJECT-GROUP, NOTIFICATION-GROUP, MODULE-COMPLIANCE, AGENT-CAPABILITIES
groupLoop(p, kw) ==
  IF isType(p, "EOF") THEN Fail(p, "unexpected EOF in " \o kw, <<>>)
  ELSE IF isType(p, "ColonColonEq") THEN groupAssignment(Adv(p), kw)
  ELSE groupLoop(Adv(p), kw)

\* a clause keyword followed by an optional string: the position after it
afterString(p) == IF isType(Adv(p), "String") THEN Adv(Adv(p)) ELSE Adv(p)

\* the clause's string, or the field's old value when no string follows
stringOr(p, old) == IF isType(Adv(p), "String") THEN Cur(Adv(p)).Text ELSE old

NewModuleIdentity(name) ==
  [Name |-> name, OID |-> <<>>, LastUpdated |-> "", Organization |-> "",
   ContactInfo |-> "", Description |-> ""]

RECURSIVE moduleIdentityLoop(_, _)
moduleIdentityLoop(p, mi) ==
  IF isIdent(p, "LAST-UPDATED")
  THEN moduleIdentityLoop(afterString(p), [mi EXCEPT !.LastUpdated = stringOr(p, @)])
  ELSE IF isIdent(p, "ORGANIZATION")
  THEN moduleIdentityLoop(afterString(p), [mi EXCEPT !.Organization = stringOr(p, @)])
  ELSE IF isIdent(p, "CONTACT-INFO")
  THEN moduleIdentityLoop(afterString(p), [mi EXCEPT !.ContactInfo = stringOr(p, @)])
  ELSE IF isIdent(p, "DESCRIPTION")
  THEN moduleIdentityLoop(afterString(p), [mi EXCEPT !.Description = stringOr(p, @)])
  ELSE IF isType(p, "ColonColonEq")
  THEN oidAssignment(Adv(p), "MODULE-IDENTITY", mi)
  ELSE IF isType(p, "EOF")
  THEN Fail(p, "unexpected EOF in MODULE-IDENTITY", mi)
  ELSE moduleIdentityLoop(Adv(p), mi)

NewObjectIdentity(name) == [Name |-> name, OID |-> <<>>, Status |-> "", Description |-> ""]

RECURSIVE objectIdentityLoop(_, _)
objectIdentityLoop(p, oi) ==
  IF isIdent(p, "STATUS")
  THEN LET r == parseUntilKeywords(Adv(p), {"DESCRIPTION", "::="})
       IN objectIdentityLoop(r.pos, [oi EXCEPT !.Status = r.acc])
  ELSE IF isIdent(p, "DESCRIPTION")
  THEN objectIdentityLoop(afterString(p), [oi EXCEPT !.Description = stringOr(p, @)])
  ELSE IF isType(p, "ColonColonEq")
  THEN oidAssignment(Adv(p), "OBJECT-IDENTITY", oi)
  ELSE IF isType(p, "EOF")
  THEN Fail(p, "unexpected EOF in OBJECT-IDENTITY", oi)
  ELSE objectIdentityLoop(Adv(p), oi)

NewTextualConvention(name) ==
  [Name |-> name, DisplayHint |-> "", Status |-> "", Description |-> "", Syntax |-> ""]

RECURSIVE textualConventionLoop(_, _)
\* both entry forms run the same loop; it ends after the SYNTAX clause
textualConventionLoop(p, tc) ==
  IF isIdent(p, "DISPLAY-HINT")
  THEN textualConventionLoop(afterString(p), [tc EXCEPT !.DisplayHint = stringOr(p, @)])
  ELSE IF isIdent(p, "STATUS")
  THEN LET r == parseUntilKeywords(Adv(p), {"DESCRIPTION", "SYNTAX"})
       IN textualConventionLoop(r.pos, [tc EXCEPT !.Status = r.acc])
  ELSE IF isIdent(p, "DESCRIPTION")
  THEN textualConventionLoop(afterString(p), [tc EXCEPT !.Description = stringOr(p, @)])
  ELSE IF isIdent(p, "SYNTAX")
  THEN LET r == parseTypeString(Adv(p))
       IN [pos |-> r.pos, err |-> "", rec |-> [tc EXCEPT !.Syntax = r.acc]]
  ELSE IF isType(p, "EOF")
  THEN [pos |-> p, err |-> "unexpected EOF in TEXTUAL-CONVENTION", rec |-> tc]
  ELSE textualConventionLoop(Adv(p), tc)

RECURSIVE objectsList(_, _)
\* the OBJECTS list after '{', up to the token that must be '}'
objectsList(p, objs) ==
  IF isType(p, "Ident")
  THEN IF isType(Adv(p), "Comma")
       THEN objectsList(Adv(Adv(p)), Append(objs, Cur(p).Text))
       ELSE [pos |-> Adv(p), objs |-> Append(objs, Cur(p).Text)]
  ELSE [pos |-> p, objs |-> objs]

NewNotificationType(name) ==
  [Name |-> name, OID |-> <<>>, Objects |-> <<>>, Status |-> "", Description |-> ""]

RECURSIVE notificationTypeLoop(_, _)
notificationTypeLoop(p, nt) ==
  IF isIdent(p, "OBJECTS")
  THEN IF ~isType(Adv(p), "LBrace")
       THEN Fail(Adv(p), "expected '{' after OBJECTS", nt)
       ELSE LET r == objectsList(Adv(Adv(p)), <<>>)
            IN IF ~isType(r.pos, "RBrace")
               THEN Fail(r.pos, "expected '}' at end of OBJECTS list", nt)
               ELSE notificationTypeLoop(Adv(r.pos), [nt EXCEPT !.Objects = r.objs])
  ELSE IF isIdent(p, "STATUS")
  THEN LET r == parseUntilKeywords(Adv(p), {"DESCRIPTION", "::="})
       IN notificationTypeLoop(r.pos, [nt EXCEPT !.Status = r.acc])
  ELSE IF isIdent(p, "DESCRIPTION")
  THEN notificationTypeLoop(afterString(p), [nt EXCEPT !.Description = stringOr(p, @)])
  ELSE IF isType(p, "ColonColonEq")
  THEN oidAssignment(Adv(p), "NOTIFICATION-TYPE", nt)
  ELSE IF isType(p, "EOF")
  THEN Fail(p, "unexpected EOF in NOTIFICATION-TYPE", nt)
  ELSE notificationTypeLoop(Adv(p), nt)

(***************************************************************************)
(* Parse: the state after construction, then p.next() and initBaseOids.    *)
(***************************************************************************)
BaseOids ==
  [n \in {"iso", "org", "dod", "internet", "mgmt", "mib-2", "private", "enterprises",
          "snmpV2", "snmpModules"} |->
     CASE n = "iso" -> <<1>>
       [] n = "org" -> <<1, 3>>
       [] n = "dod" -> <<1, 3, 6>>
       [] n = "internet" -> <<1, 3, 6, 1>>
       [] n = "mgmt" -> <<1, 3, 6, 1, 2>>
       [] n = "mib-2" -> <<1, 3, 6, 1, 2, 1>>
       [] n = "private" -> <<1, 3, 6, 1, 4>>
       [] n = "enterprises" -> <<1, 3, 6, 1, 4, 1>>
       [] n = "snmpV2" -> <<1, 3, 6, 1, 6>>
       [] n = "snmpModules" -> <<1, 3, 6, 1, 6, 3>>]

\* initBaseOids: the assignments to NodesByName
\* a bootstrap that installs snmpV2 but not snmpModules below it
initBaseOidsShort(nodes) ==
  [n \in (DOMAIN nodes) \cup ((DOMAIN BaseOids) \ {"snmpModules"}) |->
     IF n \in DOMAIN BaseOids THEN BaseOids[n] ELSE nodes[n]]

initBaseOids(nodes) == [n \in (DOMAIN nodes) \cup (DOMAIN BaseOids) |->
                          IF n \in DOMAIN BaseOids THEN BaseOids[n] ELSE nodes[n]]

Init ==
  /\ lex = NoLexer
  /\ stream = <<>>
  /\ src \in Inputs
  /\ pos = 0
  /\ pc = "start"
  /\ err = ""
  /\ ret = <<>>
  /\ rounds = 0
  /\ passes = 0
  /\ fired = <<>>
  /\ modName = ""
  /\ NodesByName = EmptyMap
  /\ ObjectsByName = EmptyMap
  /\ ModuleIdentity = <<>>
  /\ ObjectIdentities = EmptyMap
  /\ TextualConventions = EmptyMap
  /\ NotificationTypes = EmptyMap
  /\ pend = <<>>
  /\ waiting = <<>>
  /\ parked = <<>>
  /\ results = <<>>
  /\ apiObjects = EmptyMap
  /\ apiQuery = <<>>
  /\ apiOut = NoAnswers

\* Parse up to the call of parseModule
Begin ==
  /\ pc = "start"
  /\ pos' = 1
  /\ NodesByName' = initBaseOids(NodesByName)
  /\ pc' = "header"
  /\ UNCHANGED <<callVars, src, rounds, passes, fired, ret, err, modName, ObjectsByName, ModuleIdentity, ObjectIdentities,
                 TextualConventions, NotificationTypes, pend>>

\* fmt.Errorf("parse error at %d:%d: "+format, p.tok.Line, p.tok.Col), with
\* the current token at p
errorf(p, msg) ==
  "parse error at " \o ToString(Cur(p).Line) \o ":" \o ToString(Cur(p).Col) \o ": " \o msg

\* parseModule gives up at the token p: return p.errorf(msg)
Abort(p, msg) ==
  /\ pc' = "error"
  /\ err' = errorf(p, msg)
  /\ pos' = p

\* a failing Parse that hands out the module built so far
FailurePartial(e) ==
  [mod |-> <<[Name |-> modName, NodesByName |-> NodesByName]>>, err |-> e]

\* return nil, err
Failure(e) == [mod |-> <<>>, err |-> e]

\* return p.mod, nil
Success(m) == [mod |-> <<m>>, err |-> ""]

\* Parse after parseModule returned an error
ReturnError ==
  /\ pc = "error"
  /\ pc' = "failed"
  /\ ret' = Failure(err)
  /\ UNCHANGED <<callVars, src, rounds, passes, fired, pos, err, modVars, pend>>

RECURSIVE importsEnd(_)
\* parseImports, after IMPORTS has been consumed
importsEnd(p) ==
  IF isType(p, "EOF") THEN p
  ELSE IF isType(p, "Semicolon") THEN Adv(p)
  ELSE importsEnd(Adv(p))

parseImports(p) == importsEnd(Adv(p))

\* the header of parseModule: <ModuleName> DEFINITIONS ::= BEGIN [IMPORTS ... ;]
Header ==
  /\ pc = "header"
  /\ UNCHANGED <<callVars, src, rounds, passes, fired, ret, NodesByName, ObjectsByName, ModuleIdentity, ObjectIdentities,
                 TextualConventions, NotificationTypes, pend>>
  /\ IF ~isType(pos, "Ident")
     THEN Abort(pos, "expected module name") /\ UNCHANGED modName
     ELSE /\ modName' = Cur(pos).Text
          /\ IF ~isIdent(pos + 1, "DEFINITIONS")
             THEN Abort(pos + 1, "expected DEFINITIONS")
             ELSE IF ~isType(pos + 2, "ColonColonEq")
             THEN Abort(pos + 2, "expected '::=' after DEFINITIONS")
             ELSE IF ~isIdent(pos + 3, "BEGIN")
             THEN Abort(pos + 3, "expected BEGIN")
             ELSE /\ pc' = "body"
                  /\ err' = err
                  /\ pos' = IF isIdent(pos + 4, "IMPORTS") THEN parseImports(pos + 4)
                            ELSE pos + 4

(***************************************************************************)
(* The body loop of parseModule: one action per branch of the dispatcher,  *)
(* each reading one whole construct.                                       *)
(***************************************************************************)
GroupKeywords == {"OBJECT-GROUP", "NOTIFICATION-GROUP", "MODULE-COMPLIANCE", "AGENT-CAPABILITIES"}

ConstructKeywords ==
  {"MACRO", "OBJECT", "OBJECT-TYPE", "MODULE-IDENTITY", "OBJECT-IDENTITY",
   "TEXTUAL-CONVENTION", "NOTIFICATION-TYPE"} \cup GroupKeywords

\* the loop is at an identifier that is not END
AtName == pc = "body" /\ isType(pos, "Ident") /\ ~isIdent(pos, "END")

\* base ++ [index]
Extend(base, index) == Append(base, index)

\* a pending reference; rec is the record its apply patches
PendingRef(parent, index, kind, name, rec) ==
  [parent |-> parent, index |-> index, kind |-> kind, name |-> name, rec |-> rec]

\* the placeholder "if _, exists := NodesByName[name]; !exists"
Placeholder(nodes, name) == IF name \in DOMAIN nodes THEN nodes ELSE Put(nodes, name, <<>>)

\* the OID a reference gives at its definition, <<>> when it has to wait
Immediate(nodes, ref) ==
  IF ref.hasAbs THEN ref.abs
  ELSE IF resolveOidBase(nodes, ref.parent) THEN Extend(nodes[ref.parent], ref.index)
  ELSE <<>>

\* the reference is resolved at its definition
Resolved(nodes, ref) == ref.hasAbs \/ resolveOidBase(nodes, ref.parent)

\* for p.tok.Type != EOF: the loop ends without an END
BodyEOF ==
  /\ pc = "body"
  /\ isType(pos, "EOF")
  /\ pc' = "resolve"
  /\ rounds' = rounds + 1
  /\ UNCHANGED <<callVars, src, passes, fired, ret, pos, err, modVars, pend>>

\* END followed by EOF ends the module
ModuleEnd ==
  /\ pc = "body"
  /\ isIdent(pos, "END")
  /\ isType(Adv(pos), "EOF")
  /\ pos' = Adv(pos)
  /\ pc' = "resolve"
  /\ rounds' = rounds + 1
  /\ UNCHANGED <<callVars, src, passes, fired, ret, err, modVars, pend>>

\* an END that ends the module whatever follows it
InnerEndStops ==
  /\ pc = "body"
  /\ isIdent(pos, "END")
  /\ ~isType(Adv(pos), "EOF")
  /\ pos' = Adv(pos)
  /\ pc' = "resolve"
  /\ rounds' = rounds + 1
  /\ UNCHANGED <<callVars, src, passes, fired, ret, err, modVars, pend>>

\* END followed by another token is consumed
InnerEnd ==
  /\ pc = "body"
  /\ isIdent(pos, "END")
  /\ ~isType(Adv(pos), "EOF")
  /\ pos' = Adv(pos)
  /\ rounds' = rounds + 1
  /\ UNCHANGED <<callVars, src, passes, fired, ret, pc, err, modVars, pend>>

\* a dispatcher that looks at a token that is no identifier and leaves it
StrayTokenKept ==
  /\ pc = "body"
  /\ ~isType(pos, "Ident")
  /\ ~isType(pos, "EOF")
  /\ rounds' = rounds + 1
  /\ UNCHANGED <<callVars, src, passes, fired, ret, pos, pc, err, modVars, pend>>

\* a token that is no identifier is consumed
StrayToken ==
  /\ pc = "body"
  /\ ~isType(pos, "Ident")
  /\ ~isType(pos, "EOF")
  /\ pos' = Adv(pos)
  /\ rounds' = rounds + 1
  /\ UNCHANGED <<callVars, src, passes, fired, ret, pc, err, modVars, pend>>

\* N MACRO ...
MacroDef ==
  /\ AtName
  /\ isIdent(Adv(pos), "MACRO")
  /\ pos' = skipDefinition(Adv(pos))
  /\ rounds' = rounds + 1
  /\ UNCHANGED <<callVars, src, passes, fired, ret, pc, err, modVars, pend>>

\* N OBJECT IDENTIFIER ::= { ... }
ObjectIdentifier ==
  /\ AtName
  /\ isIdent(Adv(pos), "OBJECT")
  /\ LET ident == Cur(pos).Text
         p2 == Adv(Adv(pos))
     IN IF ~isIdent(p2, "IDENTIFIER")
        THEN Abort(p2, "expected IDENTIFIER after OBJECT for " \o ident) /\ UNCHANGED <<NodesByName, pend>>
        ELSE IF ~isType(Adv(p2), "ColonColonEq")
        THEN Abort(Adv(p2), "expected '::=' after OBJECT IDENTIFIER")
             /\ UNCHANGED <<NodesByName, pend>>
        ELSE LET r == oidAssignment(Adv(Adv(p2)), "OBJECT IDENTIFIER", <<>>)
             IN IF r.err # ""
                THEN Abort(r.pos, r.err) /\ UNCHANGED <<NodesByName, pend>>
                ELSE /\ pos' = r.pos
                     /\ UNCHANGED <<pc, err>>
                     /\ IF Resolved(NodesByName, r.ref)
                        THEN /\ NodesByName' = Put(NodesByName, ident, Immediate(NodesByName, r.ref))
                             /\ pend' = pend
                        ELSE /\ NodesByName' = Placeholder(NodesByName, ident)
                             /\ pend' = Append(pend, PendingRef(r.ref.parent, r.ref.index,
                                                                "node", ident, <<>>))
  /\ rounds' = rounds + 1
  /\ UNCHANGED <<callVars, src, passes, fired, ret, modName, ObjectsByName, ModuleIdentity, ObjectIdentities,
                 TextualConventions, NotificationTypes>>

\* N ::= TEXTUAL-CONVENTION ...   or   N ::= <anything else>, which is skipped
Assignment ==
  /\ AtName
  /\ isType(Adv(pos), "ColonColonEq")
  /\ LET p2 == Adv(Adv(pos))
     IN IF isIdent(p2, "TEXTUAL-CONVENTION")
        THEN LET r == textualConventionLoop(Adv(p2), NewTextualConvention(Cur(pos).Text))
             IN IF r.err # ""
                THEN Abort(r.pos, r.err) /\ UNCHANGED TextualConventions
                ELSE /\ pos' = r.pos
                     /\ TextualConventions' = Put(TextualConventions, r.rec.Name, r.rec)
                     /\ UNCHANGED <<pc, err>>
        ELSE /\ pos' = skipDefinition(p2)
             /\ UNCHANGED <<pc, err, TextualConventions>>
  /\ rounds' = rounds + 1
  /\ UNCHANGED <<callVars, src, passes, fired, ret, modName, NodesByName, ObjectsByName, ModuleIdentity, ObjectIdentities,
                 NotificationTypes, pend>>

\* N OBJECT-TYPE ... ::= { ... }
ObjectTypeDef ==
  /\ AtName
  /\ isIdent(Adv(pos), "OBJECT-TYPE")
  /\ LET r == objectTypeLoop(Adv(Adv(pos)), NewObjectType(Cur(pos).Text))
         obj == [r.rec EXCEPT !.OID = Immediate(NodesByName, r.ref)]
     IN IF r.err # ""
        THEN Abort(r.pos, r.err) /\ UNCHANGED <<NodesByName, ObjectsByName, pend>>
        ELSE /\ pos' = r.pos
             /\ UNCHANGED <<pc, err>>
             /\ ObjectsByName' = Put(ObjectsByName, obj.Name, obj)
             /\ IF Resolved(NodesByName, r.ref)
                THEN /\ NodesByName' = Put(NodesByName, obj.Name, obj.OID)
                     /\ pend' = pend
                ELSE /\ NodesByName' = Placeholder(NodesByName, obj.Name)
                     /\ pend' = Append(pend, PendingRef(r.ref.parent, r.ref.index,
                                                        "object", obj.Name, obj))
  /\ rounds' = rounds + 1
  /\ UNCHANGED <<callVars, src, passes, fired, ret, modName, ModuleIdentity, ObjectIdentities, TextualConventions,
                 NotificationTypes>>

\* N OBJECT-GROUP | NOTIFICATION-GROUP | MODULE-COMPLIANCE | AGENT-CAPABILITIES ... ::= { ... }
\* the parent is taken from NodesByName when the name is a key of it
GroupDef ==
  /\ AtName
  /\ \E kw \in GroupKeywords :
       /\ isIdent(Adv(pos), kw)
       /\ LET ident == Cur(pos).Text
              r == groupLoop(Adv(Adv(pos)), kw)
          IN IF r.err # ""
             THEN Abort(r.pos, r.err) /\ UNCHANGED <<NodesByName, pend>>
             ELSE /\ pos' = r.pos
                  /\ UNCHANGED <<pc, err>>
                  /\ IF r.ref.parent \in DOMAIN NodesByName
                     THEN /\ NodesByName' = Put(NodesByName, ident,
                                                Extend(NodesByName[r.ref.parent], r.ref.index))
                          /\ pend' = pend
                     ELSE /\ NodesByName' = NodesByName
                          /\ pend' = Append(pend, PendingRef(r.ref.parent, r.ref.index,
                                                             "node", ident, <<>>))
  /\ rounds' = rounds + 1
  /\ UNCHANGED <<callVars, src, passes, fired, ret, modName, ObjectsByName, ModuleIdentity, ObjectIdentities,
                 TextualConventions, NotificationTypes>>

\* N MODULE-IDENTITY ... ::= { ... }
ModuleIdentityDef ==
  /\ AtName
  /\ isIdent(Adv(pos), "MODULE-IDENTITY")
  /\ LET ident == Cur(pos).Text
         nodes == Placeholder(NodesByName, ident)
         r == moduleIdentityLoop(Adv(Adv(pos)), NewModuleIdentity(ident))
         mi == [r.rec EXCEPT !.OID = Immediate(nodes, r.ref)]
     IN IF r.err # ""
        THEN Abort(r.pos, r.err) /\ NodesByName' = nodes /\ UNCHANGED <<ModuleIdentity, pend>>
        ELSE /\ pos' = r.pos
             /\ UNCHANGED <<pc, err>>
             /\ ModuleIdentity' = <<mi>>
             /\ IF Resolved(nodes, r.ref)
                THEN /\ NodesByName' = Put(nodes, ident, mi.OID)
                     /\ pend' = pend
                ELSE /\ NodesByName' = nodes
                     /\ pend' = Append(pend, PendingRef(r.ref.parent, r.ref.index,
                                                        "mi", ident, mi))
  /\ rounds' = rounds + 1
  /\ UNCHANGED <<callVars, src, passes, fired, ret, modName, ObjectsByName, ObjectIdentities, TextualConventions,
                 NotificationTypes>>

\* N OBJECT-IDENTITY ... ::= { ... }
ObjectIdentityDef ==
  /\ AtName
  /\ isIdent(Adv(pos), "OBJECT-IDENTITY")
  /\ LET ident == Cur(pos).Text
         nodes == Placeholder(NodesByName, ident)
         r == objectIdentityLoop(Adv(Adv(pos)), NewObjectIdentity(ident))
         oi == [r.rec EXCEPT !.OID = Immediate(nodes, r.ref)]
     IN IF r.err # ""
        THEN Abort(r.pos, r.err) /\ NodesByName' = nodes /\ UNCHANGED <<ObjectIdentities, pend>>
        ELSE /\ pos' = r.pos
             /\ UNCHANGED <<pc, err>>
             /\ ObjectIdentities' = Put(ObjectIdentities, oi.Name, oi)
             /\ IF Resolved(nodes, r.ref)
                THEN /\ NodesByName' = Put(nodes, ident, oi.OID)
                     /\ pend' = pend
                ELSE /\ NodesByName' = nodes
                     /\ pend' = Append(pend, PendingRef(r.ref.parent, r.ref.index,
                                                        "oi", ident, oi))
  /\ rounds' = rounds + 1
  /\ UNCHANGED <<callVars, src, passes, fired, ret, modName, ObjectsByName, ModuleIdentity, TextualConventions,
                 NotificationTypes>>

\* N TEXTUAL-CONVENTION ...
TextualConventionDef ==
  /\ AtName
  /\ isIdent(Adv(pos), "TEXTUAL-CONVENTION")
  /\ LET r == textualConventionLoop(Adv(Adv(pos)), NewTextualConvention(Cur(pos).Text))
     IN IF r.err # ""
        THEN Abort(r.pos, r.err) /\ UNCHANGED TextualConventions
        ELSE /\ pos' = r.pos
             /\ TextualConventions' = Put(TextualConventions, r.rec.Name, r.rec)
             /\ UNCHANGED <<pc, err>>
  /\ rounds' = rounds + 1
  /\ UNCHANGED <<callVars, src, passes, fired, ret, modName, NodesByName, ObjectsByName, ModuleIdentity, ObjectIdentities,
                 NotificationTypes, pend>>

\* N NOTIFICATION-TYPE ... ::= { ... }: the name is not written to NodesByName
NotificationTypeDef ==
  /\ AtName
  /\ isIdent(Adv(pos), "NOTIFICATION-TYPE")
  /\ LET r == notificationTypeLoop(Adv(Adv(pos)), NewNotificationType(Cur(pos).Text))
         nt == [r.rec EXCEPT !.OID = Immediate(NodesByName, r.ref)]
     IN IF r.err # ""
        THEN Abort(r.pos, r.err) /\ UNCHANGED <<NotificationTypes, pend>>
        ELSE /\ pos' = r.pos
             /\ UNCHANGED <<pc, err>>
             /\ NotificationTypes' = Put(NotificationTypes, nt.Name, nt)
             /\ pend' = IF Resolved(NodesByName, r.ref) THEN pend
                        ELSE Append(pend, PendingRef(r.ref.parent, r.ref.index,
                                                     "nt", nt.Name, nt))
  /\ rounds' = rounds + 1
  /\ UNCHANGED <<callVars, src, passes, fired, ret, modName, NodesByName, ObjectsByName, ModuleIdentity, ObjectIdentities,
                 TextualConventions>>

\* an unknown top-level construct is skipped
UnknownConstruct ==
  /\ AtName
  /\ ~isType(Adv(pos), "ColonColonEq")
  /\ \A kw \in ConstructKeywords : ~isIdent(Adv(pos), kw)
  /\ pos' = skipDefinition(Adv(pos))
  /\ rounds' = rounds + 1
  /\ UNCHANGED <<callVars, src, passes, fired, ret, pc, err, modVars, pend>>

(***************************************************************************)
(* The fixed point over the pending references, one pass per action.       *)
(***************************************************************************)
\* the parser's maps, as one value the pass threads through the queue
Maps(nodes, objects, mi, ois, nts) ==
  [nodes |-> nodes, objects |-> objects, mi |-> mi, ois |-> ois, nts |-> nts]

\* pendingRef.apply(base), for the closures of the five kinds
apply(m, pr, base) ==
  LET oid == Extend(base, pr.index)
      rec == [pr.rec EXCEPT !.OID = oid]
  IN CASE pr.kind = "node" -> [m EXCEPT !.nodes = Put(@, pr.name, oid)]
       [] pr.kind = "object" ->
            [m EXCEPT !.objects = Put(@, rec.Name, rec), !.nodes = Put(@, rec.Name, oid)]
       [] pr.kind = "mi" -> [m EXCEPT !.mi = <<rec>>, !.nodes = Put(@, pr.name, oid)]
       [] pr.kind = "oi" ->
            [m EXCEPT !.ois = Put(@, rec.Name, rec), !.nodes = Put(@, pr.name, oid)]
       [] pr.kind = "nt" -> [m EXCEPT !.nts = Put(@, rec.Name, rec)]

\* a pending reference fires when its parent is a key of NodesByName
Fires(nodes, pr) == pr.parent \in DOMAIN nodes

RECURSIVE pass(_, _, _, _, _)
\* for _, pr := range p.pend, from the i-th reference on; called collects
\* the references whose apply was called, each with the base it was given
pass(q, i, m, remaining, called) ==
  IF i > Len(q) THEN [m |-> m, remaining |-> remaining, called |-> called]
  ELSE IF Fires(m.nodes, q[i])
  THEN pass(q, i + 1, apply(m, q[i], m.nodes[q[i].parent]), remaining,
            Append(called, [ref |-> q[i], base |-> m.nodes[q[i].parent]]))
  ELSE pass(q, i + 1, m, Append(remaining, q[i]), called)

\* the queue read back to front
Reverse(q) == [i \in 1..Len(q) |-> q[Len(q) + 1 - i]]

\* a pass that ranges over the queue in an order that is not fixed, as over a Go map
ResolvePassAnyOrder ==
  /\ pc = "resolve"
  /\ Len(pend) > 0
  /\ \E q \in {pend, Reverse(pend)} :
     LET r == pass(q, 1, Maps(NodesByName, ObjectsByName, ModuleIdentity,
                                 ObjectIdentities, NotificationTypes), <<>>, <<>>)
         progressed == Len(r.called) > 0
     IN /\ NodesByName' = r.m.nodes
        /\ ObjectsByName' = r.m.objects
        /\ ModuleIdentity' = r.m.mi
        /\ ObjectIdentities' = r.m.ois
        /\ NotificationTypes' = r.m.nts
        /\ pend' = r.remaining
        /\ fired' = fired \o r.called
        /\ pc' = IF progressed THEN "resolve" ELSE "augment"
  /\ passes' = passes + 1
  /\ UNCHANGED <<callVars, src, rounds, ret, pos, err, modName, TextualConventions>>

\* a pass that leaves the references it applied in the queue
ResolvePassKeepsQueue ==
  /\ pc = "resolve"
  /\ Len(pend) > 0
  /\ LET r == pass(pend, 1, Maps(NodesByName, ObjectsByName, ModuleIdentity,
                                 ObjectIdentities, NotificationTypes), <<>>, <<>>)
         progressed == Len(r.called) > 0
     IN /\ NodesByName' = r.m.nodes
        /\ ObjectsByName' = r.m.objects
        /\ ModuleIdentity' = r.m.mi
        /\ ObjectIdentities' = r.m.ois
        /\ NotificationTypes' = r.m.nts
        /\ pend' = pend
        /\ fired' = fired \o r.called
        /\ pc' = IF progressed THEN "resolve" ELSE "augment"
  /\ passes' = passes + 1
  /\ UNCHANGED <<callVars, src, rounds, ret, pos, err, modName, TextualConventions>>

\* one pass of the loop; the loop ends with the pass that makes no progress
ResolvePass ==
  /\ pc = "resolve"
  /\ Len(pend) > 0
  /\ LET r == pass(pend, 1, Maps(NodesByName, ObjectsByName, ModuleIdentity,
                                 ObjectIdentities, NotificationTypes), <<>>, <<>>)
         progressed == Len(r.called) > 0
     IN /\ NodesByName' = r.m.nodes
        /\ ObjectsByName' = r.m.objects
        /\ ModuleIdentity' = r.m.mi
        /\ ObjectIdentities' = r.m.ois
        /\ NotificationTypes' = r.m.nts
        /\ pend' = r.remaining
        /\ fired' = fired \o r.called
        /\ pc' = IF progressed THEN "resolve" ELSE "augment"
  /\ passes' = passes + 1
  /\ UNCHANGED <<callVars, src, rounds, ret, pos, err, modName, TextualConventions>>

\* the loop ends on an empty queue
ResolveDone ==
  /\ pc = "resolve"
  /\ Len(pend) = 0
  /\ pc' = "augment"
  /\ UNCHANGED <<callVars, src, rounds, passes, fired, ret, pos, err, modVars, pend>>

(***************************************************************************)
(* augmentFromSource.  The cleaned text: string contents blanked           *)
(* (removeQuotedStrings) and the lines of IMPORTS blocks removed           *)
(* (removeImportsBlocks); comments yield no tokens.                        *)
(***************************************************************************)
removeQuotedStrings(toks) == SelectSeq(toks, LAMBDA t : t.Type # "String")

LastLine(toks) == IF Len(toks) = 0 THEN 0 ELSE toks[Len(toks)].Line

OnLine(toks, l) == SelectSeq(toks, LAMBDA t : t.Line = l)

RECURSIVE importLines(_, _, _)
\* the lines removeImportsBlocks drops, from line l on
importLines(toks, l, skipping) ==
  IF l > LastLine(toks) THEN {}
  ELSE LET line == OnLine(toks, l)
           semi == \E k \in 1..Len(line) : line[k].Type = "Semicolon"
           starts == Len(line) > 0 /\ line[1].Type = "Ident" /\ line[1].Text = "IMPORTS"
       IN IF (~skipping /\ starts) \/ skipping
          THEN {l} \cup importLines(toks, l + 1, ~semi)
          ELSE importLines(toks, l + 1, FALSE)

removeImportsBlocks(toks) ==
  LET dropped == importLines(toks, 1, FALSE)
  IN SelectSeq(toks, LAMBDA t : t.Line \notin dropped)

Cleaned(toks) == removeImportsBlocks(removeQuotedStrings(toks))

\* ^\s*(name): the token is an identifier and the first of its line
Anchored(c, i) ==
  /\ c[i].Type = "Ident"
  /\ (i = 1 \/ c[i - 1].Line # c[i].Line)

\* (?m)^\s*(name)\s+KEYWORD\b
NamesBefore(c, kw) ==
  { c[i].Text : i \in { j \in 1..(Len(c) - 1) :
      Anchored(c, j) /\ c[j + 1].Type = "Ident" /\ c[j + 1].Text = kw } }

\* (?m)^\s*(name)\s+OBJECT\s+IDENTIFIER\s+::=
reObjId(c) ==
  { c[i].Text : i \in { j \in 1..(Len(c) - 3) :
      /\ Anchored(c, j)
      /\ c[j + 1].Type = "Ident" /\ c[j + 1].Text = "OBJECT"
      /\ c[j + 2].Type = "Ident" /\ c[j + 2].Text = "IDENTIFIER"
      /\ c[j + 3].Type = "ColonColonEq" } }

reObjType(c) == NamesBefore(c, "OBJECT-TYPE")

reObjIdentity(c) == NamesBefore(c, "OBJECT-IDENTITY")

reNotif(c) == NamesBefore(c, "NOTIFICATION-TYPE")

isReservedName(s) == s \in {"BEGIN", "END", "DEFINITIONS", "IMPORTS"}

Unreserved(names) == { n \in names : ~isReservedName(n) }

\* a sweep that resets the entry of every name it finds
augmentNodesOverwriting(nodes, c) ==
  LET found == reObjId(c) \cup Unreserved(reObjType(c) \cup reObjIdentity(c) \cup reNotif(c))
  IN [n \in (DOMAIN nodes) \cup found |-> IF n \in found THEN <<>> ELSE nodes[n]]

\* every augment step inserts the empty record only where the name is no key yet
augmentNodes(nodes, c) ==
  [n \in (DOMAIN nodes) \cup reObjId(c)
         \cup Unreserved(reObjType(c) \cup reObjIdentity(c) \cup reNotif(c)) |->
     IF n \in DOMAIN nodes THEN nodes[n] ELSE <<>>]

\* a sweep that leaves the OBJECT-TYPE names out
augmentObjectsUnswept(objects, c) == objects

augmentObjects(objects, c) ==
  [n \in (DOMAIN objects) \cup Unreserved(reObjType(c)) |->
     IF n \in DOMAIN objects THEN objects[n] ELSE NewObjectType(n)]

augmentObjectIdentities(ois, c) ==
  [n \in (DOMAIN ois) \cup Unreserved(reObjIdentity(c)) |->
     IF n \in DOMAIN ois THEN ois[n] ELSE NewObjectIdentity(n)]

augmentNotificationTypes(nts, c) ==
  [n \in (DOMAIN nts) \cup Unreserved(reNotif(c)) |->
     IF n \in DOMAIN nts THEN nts[n] ELSE NewNotificationType(n)]

\* Parse after parseModule returned nil: augmentFromSource, return p.mod
Augment ==
  /\ pc = "augment"
  /\ LET c == Cleaned(src)
     IN /\ NodesByName' = augmentNodes(NodesByName, c)
        /\ ObjectsByName' = augmentObjects(ObjectsByName, c)
        /\ ObjectIdentities' = augmentObjectIdentities(ObjectIdentities, c)
        /\ NotificationTypes' = augmentNotificationTypes(NotificationTypes, c)
  /\ pc' = "done"
  /\ ret' = Success([Name |-> modName,
                     NodesByName |-> NodesByName',
                     ObjectsByName |-> ObjectsByName',
                     ModuleIdentity |-> ModuleIdentity,
                     ObjectIdentities |-> ObjectIdentities',
                     TextualConventions |-> TextualConventions,
                     NotificationTypes |-> NotificationTypes'])
  /\ UNCHANGED <<callVars, src, rounds, passes, fired, pos, err, modName, ModuleIdentity, TextualConventions, pend>>

Next ==
  \/ Begin
  \/ ReturnError
  \/ Header
  \/ BodyEOF
  \/ ModuleEnd
  \/ InnerEnd
  \/ StrayToken
  \/ MacroDef
  \/ ObjectIdentifier
  \/ Assignment
  \/ ObjectTypeDef
  \/ GroupDef
  \/ ModuleIdentityDef
  \/ ObjectIdentityDef
  \/ TextualConventionDef
  \/ NotificationTypeDef
  \/ UnknownConstruct
  \/ ResolvePass
  \/ ResolveDone
  \/ Augment

Spec == Init /\ [][Next]_vars

\* Parse has not returned yet
Running == pc \notin {"done", "failed"}

\* Parse is one sequential call that keeps running until it returns: weak
\* fairness of Next, with the enabledness of a step written as Running (a step
\* is possible exactly as long as Parse has not returned)
KeepsRunning == []<>(~Running) \/ []<><<Next>>_vars

LiveSpec == Spec /\ KeepsRunning /\ WF_vars(ReturnError)

(***************************************************************************)
(* Several Parse calls.  A call's state is the rdParser that Parse         *)
(* constructs and the ModuleIR it points to; the package has no variable   *)
(* of its own.  The first call runs alone; the later two may run           *)
(* concurrently, one of them scheduled at a time.                          *)
(***************************************************************************)
\* the state of the call that is scheduled
Current ==
  [src |-> src, pos |-> pos, pc |-> pc, err |-> err, ret |-> ret, rounds |-> rounds,
   passes |-> passes, fired |-> fired, modName |-> modName, NodesByName |-> NodesByName,
   ObjectsByName |-> ObjectsByName, ModuleIdentity |-> ModuleIdentity,
   ObjectIdentities |-> ObjectIdentities, TextualConventions |-> TextualConventions,
   NotificationTypes |-> NotificationTypes, pend |-> pend]

\* a construction that takes over the node map of the call before it, as a
\* map kept in a package variable would be
FreshKeepsNodes(input) ==
  [src |-> input, pos |-> 0, pc |-> "start", err |-> "", ret |-> <<>>, rounds |-> 0,
   passes |-> 0, fired |-> <<>>, modName |-> "", NodesByName |-> NodesByName,
   ObjectsByName |-> EmptyMap, ModuleIdentity |-> <<>>, ObjectIdentities |-> EmptyMap,
   TextualConventions |-> EmptyMap, NotificationTypes |-> EmptyMap, pend |-> <<>>]

\* p := &rdParser{...}: the state a call starts in
Fresh(input) ==
  [src |-> input, pos |-> 0, pc |-> "start", err |-> "", ret |-> <<>>, rounds |-> 0,
   passes |-> 0, fired |-> <<>>, modName |-> "", NodesByName |-> EmptyMap,
   ObjectsByName |-> EmptyMap, ModuleIdentity |-> <<>>, ObjectIdentities |-> EmptyMap,
   TextualConventions |-> EmptyMap, NotificationTypes |-> EmptyMap, pend |-> <<>>]

\* the call with state c is scheduled
Load(c) ==
  /\ src' = c.src
  /\ pos' = c.pos
  /\ pc' = c.pc
  /\ err' = c.err
  /\ ret' = c.ret
  /\ rounds' = c.rounds
  /\ passes' = c.passes
  /\ fired' = c.fired
  /\ modName' = c.modName
  /\ NodesByName' = c.NodesByName
  /\ ObjectsByName' = c.ObjectsByName
  /\ ModuleIdentity' = c.ModuleIdentity
  /\ ObjectIdentities' = c.ObjectIdentities
  /\ TextualConventions' = c.TextualConventions
  /\ NotificationTypes' = c.NotificationTypes
  /\ pend' = c.pend

\* the input and the result of the call that has returned
Outcome == [input |-> src, out |-> ret]

\* the scheduled call has returned and no other call is under way: the next
\* call is made
NextCall ==
  /\ ~Running
  /\ parked = <<>>
  /\ waiting # <<>>
  /\ results' = Append(results, Outcome)
  /\ Load(Fresh(Head(waiting)))
  /\ waiting' = Tail(waiting)
  /\ UNCHANGED <<parked, apiVars, lexVars>>

\* while a call other than the first is under way, the next call is made
\* concurrently and is scheduled
Spawn ==
  /\ Running
  /\ results # <<>>
  /\ parked = <<>>
  /\ waiting # <<>>
  /\ parked' = <<Current>>
  /\ Load(Fresh(Head(waiting)))
  /\ waiting' = Tail(waiting)
  /\ UNCHANGED <<results, apiVars, lexVars>>

\* the scheduler turns to the other call
Switch ==
  /\ Running
  /\ parked # <<>>
  /\ parked' = <<Current>>
  /\ Load(parked[1])
  /\ UNCHANGED <<waiting, results, apiVars, lexVars>>

\* the scheduled call has returned; the other call goes on
Resume ==
  /\ ~Running
  /\ parked # <<>>
  /\ results' = Append(results, Outcome)
  /\ Load(parked[1])
  /\ parked' = <<>>
  /\ UNCHANGED <<waiting, apiVars, lexVars>>

\* a first call, then a call on another input and a second call on the
\* first input
CallsInit ==
  /\ lex = NoLexer
  /\ stream = <<>>
  /\ src \in CallInputs
  /\ waiting \in {<<other, src>> : other \in OtherInputs}
  /\ pos = 0
  /\ pc = "start"
  /\ err = ""
  /\ ret = <<>>
  /\ rounds = 0
  /\ passes = 0
  /\ fired = <<>>
  /\ modName = ""
  /\ NodesByName = EmptyMap
  /\ ObjectsByName = EmptyMap
  /\ ModuleIdentity = <<>>
  /\ ObjectIdentities = EmptyMap
  /\ TextualConventions = EmptyMap
  /\ NotificationTypes = EmptyMap
  /\ pend = <<>>
  /\ parked = <<>>
  /\ results = <<>>
  /\ apiObjects = EmptyMap
  /\ apiQuery = <<>>
  /\ apiOut = NoAnswers

CallsNext ==
  \/ Next
  \/ NextCall
  \/ Spawn
  \/ Switch
  \/ Resume

CallsSpec == CallsInit /\ [][CallsNext]_vars

(***************************************************************************)
(* The public API on a module: the rendering of an OID and the lookup of   *)
(* an object by its OID.                                                   *)
(***************************************************************************)
\* the longest OID rendered and looked up
MaxOidLen == 3

\* the components the OIDs are made of
Components == {0, 7, 10, 128}

Oids == UNION { [1..k -> Components] : k \in 0..MaxOidLen }

Numerals == "0123456789"

\* byte('0' + d)
digit(d) == SubSeq(Numerals, d + 1, d + 1)

RECURSIVE decimal(_)
\* the loop of itoa: the digits of n, none when n is 0
decimal(n) == IF n > 0 THEN decimal(n \div 10) \o digit(n % 10) ELSE ""

itoa(n) ==
  IF n = 0 THEN "0"
  ELSE IF n < 0 THEN "-" \o decimal(0 - n)
  ELSE decimal(n)

RECURSIVE OIDStringFrom(_, _, _)
\* for i, n := range oid, from the i-th component on
OIDStringFrom(oid, i, acc) ==
  IF i > Len(oid) THEN acc
  ELSE OIDStringFrom(oid, i + 1, (IF i > 1 THEN acc \o "." ELSE acc) \o itoa(oid[i]))

OIDString(oid) == IF Len(oid) = 0 THEN "" ELSE OIDStringFrom(oid, 1, "")

\* fmt.Sprintf("%d", n)
sprintf(n) == ToString(n)

RECURSIVE Join(_, _)
\* strings.Join
Join(strs, sep) ==
  IF Len(strs) = 0 THEN ""
  ELSE IF Len(strs) = 1 THEN strs[1]
  ELSE strs[1] \o sep \o Join(Tail(strs), sep)

\* a rendering that ends every component with a dot
oidToStringDotted(oid) == Join([i \in 1..Len(oid) |-> sprintf(oid[i]) \o "."], "")

oidToString(oid) == Join([i \in 1..Len(oid) |-> sprintf(oid[i])], ".")

\* a comparison that leaves out the comparison of the lengths
oidsEqualUpTo(a, b) ==
  \A i \in 1..(IF Len(a) < Len(b) THEN Len(a) ELSE Len(b)) : a[i] = b[i]

oidsEqual(a, b) ==
  IF Len(a) # Len(b) THEN FALSE
  ELSE \A i \in 1..Len(a) : a[i] = b[i]

Obj(name, oid) == [Name |-> name, OID |-> oid]

\* the modules looked into: without objects; with an object that has no OID;
\* with two objects under one OID; with two objects that have no OID; with an
\* OID that begins another
ApiModules ==
  { EmptyMap,
    [n \in {"a"} |-> Obj(n, <<7>>)],
    [n \in {"a"} |-> Obj(n, <<>>)],
    [n \in {"a", "b"} |-> Obj(n, <<7, 10>>)],
    [n \in {"a", "b"} |-> Obj(n, <<>>)],
    [n \in {"a", "b"} |-> Obj(n, IF n = "a" THEN <<7>> ELSE <<7, 0>>)],
    [n \in {"a", "b", "c"} |->
       Obj(n, IF n = "a" THEN <<10, 128>> ELSE IF n = "b" THEN <<0>> ELSE <<128, 7, 0>>)] }

\* oidToString(q), as the OIDString methods of the objects call it
RenderObject ==
  /\ apiOut.text = <<>>
  /\ apiOut' = [apiOut EXCEPT !.text = <<oidToString(apiQuery)>>]
  /\ UNCHANGED <<apiObjects, apiQuery, queueVars, lexVars, src, pos, pc, err, ret, rounds, passes,
                 fired, modVars, pend>>

\* OIDString(q)
RenderSlice ==
  /\ apiOut.dotted = <<>>
  /\ apiOut' = [apiOut EXCEPT !.dotted = <<OIDString(apiQuery)>>]
  /\ UNCHANGED <<apiObjects, apiQuery, queueVars, lexVars, src, pos, pc, err, ret, rounds, passes,
                 fired, modVars, pend>>

\* the answer of a lookup
Found(obj) == [found |-> TRUE, obj |-> <<obj>>]

NotFound == [found |-> FALSE, obj |-> <<>>]

\* GetObjectByOID(q): the range over the map meets the objects in any order
GetObjectByOID ==
  /\ apiOut.byOid = <<>>
  /\ LET hits == {n \in DOMAIN apiObjects : oidsEqual(apiObjects[n].OID, apiQuery)}
     IN IF hits = {}
        THEN apiOut' = [apiOut EXCEPT !.byOid = <<NotFound>>]
        ELSE \E n \in hits : apiOut' = [apiOut EXCEPT !.byOid = <<Found(apiObjects[n])>>]
  /\ UNCHANGED <<apiObjects, apiQuery, queueVars, lexVars, src, pos, pc, err, ret, rounds, passes,
                 fired, modVars, pend>>

\* GetObjectByOIDString(s) with the rendering of q for s
GetObjectByOIDString ==
  /\ apiOut.text # <<>>
  /\ apiOut.byString = <<>>
  /\ LET hits == {n \in DOMAIN apiObjects : oidToString(apiObjects[n].OID) = apiOut.text[1]}
     IN IF hits = {}
        THEN apiOut' = [apiOut EXCEPT !.byString = <<NotFound>>]
        ELSE \E n \in hits : apiOut' = [apiOut EXCEPT !.byString = <<Found(apiObjects[n])>>]
  /\ UNCHANGED <<apiObjects, apiQuery, queueVars, lexVars, src, pos, pc, err, ret, rounds, passes,
                 fired, modVars, pend>>

\* a module and an OID; no Parse call is under way
ApiInit ==
  /\ lex = NoLexer
  /\ stream = <<>>
  /\ apiObjects \in ApiModules
  /\ apiQuery \in Oids
  /\ apiOut = NoAnswers
  /\ src = <<>>
  /\ pos = 0
  /\ pc = "start"
  /\ err = ""
  /\ ret = <<>>
  /\ rounds = 0
  /\ passes = 0
  /\ fired = <<>>
  /\ modName = ""
  /\ NodesByName = EmptyMap
  /\ ObjectsByName = EmptyMap
  /\ ModuleIdentity = <<>>
  /\ ObjectIdentities = EmptyMap
  /\ TextualConventions = EmptyMap
  /\ NotificationTypes = EmptyMap
  /\ pend = <<>>
  /\ waiting = <<>>
  /\ parked = <<>>
  /\ results = <<>>

ApiNext ==
  \/ RenderObject
  \/ RenderSlice
  \/ GetObjectByOID
  \/ GetObjectByOIDString

ApiSpec == ApiInit /\ [][ApiNext]_vars

(***************************************************************************)
(* The lexer (package lexer), run on its own over a text.  A text is a     *)
(* string; a rune is a string of length one, and the rune 0 that peekChar  *)
(* returns at the end of the input is the empty string.                    *)
(***************************************************************************)
\* most pieces a text is put together from
MaxPieces == 3

\* the pieces of the texts
Pieces ==
  {"ab", "-", "--c", "7", "\"", " ", "\n", "{", "}", "(", ")", ",", ".", ";", ":", "=",
   "::=", "?"}

RECURSIVE Concat(_, _)
\* the pieces ps[i..] written one after the other
Concat(ps, i) == IF i > Len(ps) THEN "" ELSE ps[i] \o Concat(ps, i + 1)

Texts == { Concat(ps, 1) : ps \in SeqsUpTo(Pieces, MaxPieces) }

Letters == "abcdefghijklmnopqrstuvwxyzABCDEFGHIJKLMNOPQRSTUVWXYZ"

\* the rune r occurs in the text s
OneOf(r, s) == Len(r) = 1 /\ \E i \in 1..Len(s) : SubSeq(s, i, i) = r

\* unicode.IsLetter and unicode.IsDigit on the runes of the texts
IsLetter(r) == OneOf(r, Letters)

IsDigit(r) == OneOf(r, Numerals)

isIdentStart(r) == IsLetter(r)

isIdentRune(r) == IsLetter(r) \/ IsDigit(r) \/ r = "-"

\* lexer.New
New(text) == [input |-> text, pos |-> 0, line |-> 1, col |-> 1, peeked |-> <<>>]

eof(l) == l.pos >= Len(l.input)

cur(l) == SubSeq(l.input, l.pos + 1, l.pos + 1)

peekChar(l) == IF l.pos + 1 >= Len(l.input) THEN "" ELSE SubSeq(l.input, l.pos + 2, l.pos + 2)

advance(l) ==
  IF eof(l) THEN l
  ELSE IF cur(l) = "\n" THEN [l EXCEPT !.pos = l.pos + 1, !.line = l.line + 1, !.col = 1]
  ELSE [l EXCEPT !.pos = l.pos + 1, !.col = l.col + 1]

RECURSIVE toNewline(_)
\* for !l.eof() && l.cur() != '\n' { l.advance() }
toNewline(l) == IF ~eof(l) /\ cur(l) # "\n" THEN toNewline(advance(l)) ELSE l

RECURSIVE skipWhitespaceAndComments(_)
skipWhitespaceAndComments(l) ==
  IF eof(l) THEN l
  ELSE IF cur(l) \in {" ", "\t", "\r", "\n"} THEN skipWhitespaceAndComments(advance(l))
  ELSE IF cur(l) = "-" /\ peekChar(l) = "-"
       THEN skipWhitespaceAndComments(toNewline(advance(advance(l))))
  ELSE l

\* Token{...} with the position given
TokenAt(type, text, int, line, col) ==
  [Type |-> type, Text |-> text, Int |-> int, Line |-> line, Col |-> col]

\* l.mk: the token takes the line and the column the lexer is at
mk(l, type, text) == TokenAt(type, text, 0, l.line, l.col)

\* what a call of Next gives: the token, the lexer after it, and the offset
\* of the first rune of the token
Lexed(tok, l, at) == [tok |-> tok, l |-> l, at |-> at]

RECURSIVE identRunes(_, _)
\* the loop that collects the runes of an identifier
identRunes(l, s) ==
  IF ~eof(l) /\ isIdentRune(cur(l)) THEN identRunes(advance(l), s \o cur(l))
  ELSE [l |-> l, s |-> s]

\* int(r - '0') for a digit r
digitValue(r) == CHOOSE d \in 0..9 : SubSeq(Numerals, d + 1, d + 1) = r

RECURSIVE digitRunes(_, _)
\* the loop that collects the value of a number
digitRunes(l, n) ==
  IF ~eof(l) /\ IsDigit(cur(l)) THEN digitRunes(advance(l), n * 10 + digitValue(cur(l)))
  ELSE [l |-> l, n |-> n]

RECURSIVE stringRunes(_, _)
\* the loop of readString after the opening quote
stringRunes(l, s) ==
  IF eof(l) THEN [l |-> l, s |-> s]
  ELSE IF cur(l) = "\"" THEN [l |-> advance(l), s |-> s]
  ELSE IF cur(l) = "\\"
       THEN IF eof(advance(l)) THEN [l |-> advance(l), s |-> s]
            ELSE stringRunes(advance(advance(l)), s \o cur(advance(l)))
  ELSE stringRunes(advance(l), s \o cur(l))

readString(l) ==
  LET r == stringRunes(advance(l), "")
  IN Lexed(TokenAt("String", r.s, 0, l.line, l.col), r.l, l.pos)

readColonAssign(l) ==
  LET l1 == advance(l)
      l2 == advance(l1)
      l3 == advance(l2)
  IN IF eof(l1) \/ cur(l1) # ":" THEN Lexed(mk(l1, "AssignEq", ":"), l1, l.pos)
     ELSE IF eof(l2) \/ cur(l2) # "=" THEN Lexed(mk(l2, "AssignEq", "::"), l2, l.pos)
     ELSE Lexed(mk(l3, "ColonColonEq", "::="), l3, l.pos)

\* the token types of the single-rune tokens
PunctType(r) ==
  CASE r = "{" -> "LBrace"
    [] r = "}" -> "RBrace"
    [] r = "(" -> "LParen"
    [] r = ")" -> "RParen"
    [] r = "," -> "Comma"
    [] r = "." -> "Dot"
    [] r = ";" -> "Semicolon"
    [] r = "=" -> "AssignEq"
    [] OTHER -> ""

RECURSIVE scan(_)
\* Lexer.Next when nothing is peeked
scan(l0) ==
  LET l == skipWhitespaceAndComments(l0)
  IN IF eof(l) THEN Lexed(mk(l, "EOF", ""), l, l.pos)
     ELSE IF isIdentStart(cur(l))
          THEN LET r == identRunes(advance(l), cur(l))
               IN Lexed(TokenAt("Ident", r.s, 0, l.line, l.col), r.l, l.pos)
     ELSE IF IsDigit(cur(l))
          THEN LET r == digitRunes(l, 0)
               IN Lexed(TokenAt("Number", "", r.n, l.line, l.col), r.l, l.pos)
     ELSE IF cur(l) = "\"" THEN readString(l)
     ELSE IF cur(l) = ":" THEN readColonAssign(l)
     ELSE IF PunctType(cur(l)) # ""
          THEN Lexed(mk(advance(l), PunctType(cur(l)), cur(l)), advance(l), l.pos)
     ELSE scan(advance(l))

\* Next has returned EOF
AtEnd == Len(stream) > 0 /\ stream[Len(stream)].tok.Type = "EOF"

\* Lexer.Peek with nothing peeked: the next token is read and kept
Peek ==
  /\ lex.peeked = <<>>
  /\ ~AtEnd
  /\ LET r == scan(lex)
     IN lex' = [r.l EXCEPT !.peeked = <<[tok |-> r.tok, at |-> r.at]>>]
  /\ UNCHANGED <<stream, queueVars, apiVars, src, pos, pc, err, ret, rounds, passes, fired,
                 modVars, pend>>

\* Lexer.Next after a Peek: the kept token is returned
NextPeeked ==
  /\ lex.peeked # <<>>
  /\ stream' = Append(stream, lex.peeked[1])
  /\ lex' = [lex EXCEPT !.peeked = <<>>]
  /\ UNCHANGED <<queueVars, apiVars, src, pos, pc, err, ret, rounds, passes, fired,
                 modVars, pend>>

\* Lexer.Next with nothing peeked, on the branch that returns a token of one
\* of the types
NextOf(types) ==
  /\ lex.peeked = <<>>
  /\ ~AtEnd
  /\ LET r == scan(lex)
     IN /\ r.tok.Type \in types
        /\ stream' = Append(stream, [tok |-> r.tok, at |-> r.at])
        /\ lex' = r.l
  /\ UNCHANGED <<queueVars, apiVars, src, pos, pc, err, ret, rounds, passes, fired,
                 modVars, pend>>

NextIdent == NextOf({"Ident"})

NextNumber == NextOf({"Number"})

NextString == NextOf({"String"})

NextPunct == NextOf({"LBrace", "RBrace", "LParen", "RParen", "Comma", "Dot", "Semicolon"})

NextAssign == NextOf({"ColonColonEq", "AssignEq"})

\* Next at the end of the input; the calls after it return EOF again
NextEOF == NextOf({"EOF"})

\* a lexer constructed on a text; no Parse call is under way
LexInit ==
  /\ lex \in { New(text) : text \in Texts }
  /\ stream = <<>>
  /\ apiObjects = EmptyMap
  /\ apiQuery = <<>>
  /\ apiOut = NoAnswers
  /\ src = <<>>
  /\ pos = 0
  /\ pc = "start"
  /\ err = ""
  /\ ret = <<>>
  /\ rounds = 0
  /\ passes = 0
  /\ fired = <<>>
  /\ modName = ""
  /\ NodesByName = EmptyMap
  /\ ObjectsByName = EmptyMap
  /\ ModuleIdentity = <<>>
  /\ ObjectIdentities = EmptyMap
  /\ TextualConventions = EmptyMap
  /\ NotificationTypes = EmptyMap
  /\ pend = <<>>
  /\ waiting = <<>>
  /\ parked = <<>>
  /\ results = <<>>

LexNext ==
  \/ Peek
  \/ NextPeeked
  \/ NextIdent
  \/ NextNumber
  \/ NextString
  \/ NextPunct
  \/ NextAssign
  \/ NextEOF

LexSpec == LexInit /\ [][LexNext]_vars

(***************************************************************************)
(* What the source declares, read off the text independently of the        *)
(* parser: a name followed by a construct keyword, and the reference       *)
(* written after the first '::=' that follows.                             *)
(***************************************************************************)
Done == pc = "done"

IsWord(j, w) == j <= Len(src) /\ src[j].Type = "Ident" /\ equalFold(src[j].Text, w)

HasModuleName == 1 <= Len(src) /\ src[1].Type = "Ident"

HasAssign == 3 <= Len(src) /\ src[3].Type = "ColonColonEq"

HasTrailingEnd == Len(src) > 4 /\ IsWord(Len(src), "END")

\* the module has its five fixed tokens
Framed ==
  HasModuleName /\ IsWord(2, "DEFINITIONS") /\ HasAssign /\ IsWord(4, "BEGIN")
    /\ HasTrailingEnd

NodeKeywords == {"OBJECT", "OBJECT-TYPE", "MODULE-IDENTITY", "OBJECT-IDENTITY"} \cup GroupKeywords

OidKeywords == NodeKeywords \cup {"NOTIFICATION-TYPE"}

\* the keyword of the declaration whose name is the j-th token, "" when none
KeywordAt(j) ==
  IF j + 1 <= Len(src) /\ src[j].Type = "Ident" /\ src[j + 1].Type = "Ident"
     /\ (\E kw \in OidKeywords : equalFold(src[j + 1].Text, kw))
     /\ (equalFold(src[j + 1].Text, "OBJECT") =>
           j + 2 <= Len(src) /\ src[j + 2].Type = "Ident"
           /\ equalFold(src[j + 2].Text, "IDENTIFIER"))
  THEN CHOOSE kw \in OidKeywords : equalFold(src[j + 1].Text, kw)
  ELSE ""

DeclPositions == { j \in 1..Len(src) : KeywordAt(j) # "" }

\* the position of the first '::=' after the j-th token, 0 when there is none
AssignAfter(j) ==
  LET ks == { k \in (j + 1)..Len(src) : src[k].Type = "ColonColonEq" }
  IN IF ks = {} THEN 0 ELSE CHOOSE k \in ks : \A l \in ks : k <= l

\* the declaration is written '::= { parent index }'
Symbolic(j) ==
  LET k == AssignAfter(j)
  IN /\ k # 0
     /\ k + 4 <= Len(src)
     /\ src[k + 1].Type = "LBrace"
     /\ src[k + 2].Type = "Ident"
     /\ src[k + 3].Type = "Number"
     /\ src[k + 4].Type = "RBrace"

DeclName(j) == src[j].Text

DeclParent(j) == src[AssignAfter(j) + 2].Text

DeclIndex(j) == src[AssignAfter(j) + 3].Int

DeclaredNames == { DeclName(j) : j \in DeclPositions }

\* no other declaration of the source has the name of the j-th token
DeclaredOnce(j) == \A k \in DeclPositions : DeclName(k) = DeclName(j) => k = j

\* the OID the parse result holds for the declaration at j, <<>> when it holds none
DeclOid(j) ==
  LET n == DeclName(j)
      kw == KeywordAt(j)
  IN IF kw = "NOTIFICATION-TYPE"
     THEN IF n \in DOMAIN NotificationTypes THEN NotificationTypes[n].OID ELSE <<>>
     ELSE IF n \in DOMAIN NodesByName THEN NodesByName[n] ELSE <<>>

\* the name of the declaration at j is a key of the index of its kind
InItsIndex(j) ==
  LET n == DeclName(j)
      kw == KeywordAt(j)
  IN CASE kw = "OBJECT-TYPE" -> n \in DOMAIN ObjectsByName
       [] kw = "OBJECT-IDENTITY" -> n \in DOMAIN ObjectIdentities
       [] kw = "NOTIFICATION-TYPE" -> n \in DOMAIN NotificationTypes
       [] kw = "MODULE-IDENTITY" -> Len(ModuleIdentity) = 1 /\ ModuleIdentity[1].Name = n
       [] OTHER -> n \in DOMAIN NodesByName

\* the name of the MODULE-IDENTITY record, as a set
ModuleIdentityNames == { ModuleIdentity[i].Name : i \in 1..Len(ModuleIdentity) }

KindKeys ==
  (DOMAIN ObjectsByName) \cup (DOMAIN ObjectIdentities) \cup (DOMAIN NotificationTypes)
    \cup ModuleIdentityNames

(***************************************************************************)
(* C1.  After a successful Parse, a declaration written with a symbolic    *)
(* parent reference (p, i) that ends with a non-empty OID has the OID      *)
(* nodes[p] ++ <<i>>.  Stated for modules with all fixed tokens and for    *)
(* the declarations whose name the source declares once and that is no     *)
(* bootstrap name.  Fails: a reference waiting in the queue fires as soon  *)
(* as its parent is a key of NodesByName, also while the parent is still   *)
(* an empty placeholder.                                                   *)
(***************************************************************************)
C1_OidParentExtension ==
  (Done /\ Framed) =>
    \A j \in DeclPositions :
      (Symbolic(j) /\ DeclaredOnce(j) /\ DeclName(j) \notin DOMAIN BaseOids
         /\ DeclOid(j) # <<>>) =>
        /\ DeclParent(j) \in DOMAIN NodesByName
        /\ DeclOid(j) = NodesByName[DeclParent(j)] \o <<DeclIndex(j)>>

(***************************************************************************)
(* C2.  Forward references are order-independent: a module of OID aliases  *)
(* with distinct names whose parent chains end at a bootstrap node gets    *)
(* the nodes mapping its parents-first order gets, ChainOid, in every      *)
(* order of the declarations.  Fails for a chain of two declarations each  *)
(* written before its parent.                                              *)
(***************************************************************************)
AliasPositions == { j \in DeclPositions : KeywordAt(j) = "OBJECT" }

\* the declaration of name n
PosOf(n) == CHOOSE j \in DeclPositions : DeclName(j) = n

RECURSIVE ChainEnds(_, _)
\* the parent chain of n reaches a bootstrap name within fuel steps
ChainEnds(n, fuel) ==
  IF n \in DeclaredNames
  THEN fuel > 0 /\ ChainEnds(DeclParent(PosOf(n)), fuel - 1)
  ELSE n \in DOMAIN BaseOids

RECURSIVE ChainOid(_)
\* the OID of n when every parent is written before its children
ChainOid(n) ==
  IF n \in DeclaredNames
  THEN ChainOid(DeclParent(PosOf(n))) \o <<DeclIndex(PosOf(n))>>
  ELSE BaseOids[n]

\* the body is OID aliases only, with distinct names none of which is a
\* bootstrap name, every chain ending at a bootstrap node
ChainModule ==
  /\ DeclPositions = AliasPositions
  /\ Len(src) = Len(FullHeader) + 8 * Cardinality(AliasPositions) + 1
  /\ \A j \in DeclPositions :
       /\ Symbolic(j)
       /\ DeclaredOnce(j)
       /\ DeclName(j) \notin DOMAIN BaseOids
       /\ ChainEnds(DeclName(j), Cardinality(DeclPositions))

C2_OrderIndependent ==
  (Done /\ ChainModule) =>
    \A j \in DeclPositions :
      /\ DeclName(j) \in DOMAIN NodesByName
      /\ NodesByName[DeclName(j)] = ChainOid(DeclName(j))

(***************************************************************************)
(* C3.  A declaration whose parent is neither declared in the module nor   *)
(* a bootstrap name leaves its name in its index with an empty OID.        *)
(* Stated for modules with all fixed tokens and for the names the source   *)
(* declares once.  Fails for the group-like constructs, which store no     *)
(* placeholder.                                                            *)
(***************************************************************************)
\* the OID stored for the declaration at j in the index of its kind
IndexOid(j) ==
  LET n == DeclName(j)
      kw == KeywordAt(j)
  IN CASE kw = "OBJECT-TYPE" -> ObjectsByName[n].OID
       [] kw = "OBJECT-IDENTITY" -> ObjectIdentities[n].OID
       [] kw = "NOTIFICATION-TYPE" -> NotificationTypes[n].OID
       [] kw = "MODULE-IDENTITY" -> ModuleIdentity[1].OID
       [] OTHER -> NodesByName[n]

UnknownParent(j) ==
  /\ Symbolic(j)
  /\ DeclParent(j) \notin DeclaredNames
  /\ DeclParent(j) \notin DOMAIN BaseOids

C3_UnresolvedKept ==
  (Done /\ Framed) =>
    \A j \in DeclPositions :
      (UnknownParent(j) /\ DeclaredOnce(j)) => (InItsIndex(j) /\ IndexOid(j) = <<>>)

(***************************************************************************)
(* C4.  After a successful Parse every key of objects, objectIdentities    *)
(* and notificationTypes and the name of moduleIdentity is a key of nodes. *)
(* Stated for modules with all fixed tokens.  Fails for a                  *)
(* NOTIFICATION-TYPE the sweep does not find at a line start.              *)
(***************************************************************************)
C4_KindKeysInNodes == (Done /\ Framed) => KindKeys \subseteq DOMAIN NodesByName

(***************************************************************************)
(* C5.  After a successful Parse every named OID-bearing declaration of    *)
(* the source is present by name, in nodes or in its kind index.  Stated   *)
(* for modules with all fixed tokens.  Fails for group-like constructs     *)
(* with an unresolved parent and for skipped MODULE-IDENTITY and           *)
(* group-like declarations.                                                *)
(***************************************************************************)
C5_AllDeclsPresent ==
  (Done /\ Framed) => \A j \in DeclPositions : DeclName(j) \in (DOMAIN NodesByName) \cup KindKeys

(***************************************************************************)
(* The names the test utility expects of a cleaned source.                 *)
(***************************************************************************)
\* (?m)^\s*(name)\s+MODULE-IDENTITY\b, first match only; "" when none
reModId(c) ==
  LET js == { j \in 1..(Len(c) - 1) :
                Anchored(c, j) /\ c[j + 1].Type = "Ident" /\ c[j + 1].Text = "MODULE-IDENTITY" }
  IN IF js = {} THEN "" ELSE c[CHOOSE j \in js : \A k \in js : j <= k].Text

extractExpected(c) ==
  [ ObjectIdentifierNames |-> reObjId(c),
    ObjectTypeNames |-> { n \in reObjType(c) : ~isReservedName(n) },
    ModuleIdentityName |-> reModId(c),
    ObjectIdentityNames |-> { n \in reObjIdentity(c) : ~isReservedName(n) },
    NotificationTypeNames |-> { n \in reNotif(c) : ~isReservedName(n) } ]

Expected == extractExpected(Cleaned(src))

(***************************************************************************)
(* C6.  After a successful Parse every name the line-anchored patterns     *)
(* find in the cleaned source, reserved words apart, is a key of the       *)
(* matching index: nodes for 'name OBJECT IDENTIFIER ::=', objects for     *)
(* 'name OBJECT-TYPE', objectIdentities for 'name OBJECT-IDENTITY',        *)
(* notificationTypes for 'name NOTIFICATION-TYPE'.                         *)
(***************************************************************************)
C6_SourceNamesCovered ==
  Done =>
    /\ { n \in Expected.ObjectIdentifierNames : ~isReservedName(n) } \subseteq DOMAIN NodesByName
    /\ Expected.ObjectTypeNames \subseteq DOMAIN ObjectsByName
    /\ Expected.ObjectIdentityNames \subseteq DOMAIN ObjectIdentities
    /\ Expected.NotificationTypeNames \subseteq DOMAIN NotificationTypes

\* a parse is done in which the tokenized pass went over an OBJECT-TYPE
\* without storing it and the sweep supplied the empty record
C6_SweepSuppliedObject ==
  /\ Done
  /\ \E n \in Expected.ObjectTypeNames :
       /\ n \in DOMAIN ObjectsByName
       /\ ObjectsByName[n] = NewObjectType(n)
       /\ n \in DOMAIN NodesByName
       /\ NodesByName[n] = <<>>

(***************************************************************************)
(* C7.  After a successful Parse of a module with all fixed tokens whose   *)
(* cleaned source has a line-anchored 'name MODULE-IDENTITY', the          *)
(* moduleIdentity is present and has, case-insensitively, the name of the  *)
(* first such declaration.  Fails when a second MODULE-IDENTITY follows    *)
(* and when the declaration lies inside a skipped definition.              *)
(***************************************************************************)
C7_ModuleIdentityFound ==
  (Done /\ Framed /\ Expected.ModuleIdentityName # "") =>
    /\ Len(ModuleIdentity) = 1
    /\ equalFold(ModuleIdentity[1].Name, Expected.ModuleIdentityName)

(***************************************************************************)
(* C8.  As stated: after a successful Parse each of the ten bootstrap      *)
(* names maps in nodes to its canonical OID, whatever the body declares.   *)
(* Fails when the body declares a bootstrap name itself.                   *)
(***************************************************************************)
C8_BootstrapCanonical ==
  Done => \A b \in DOMAIN BaseOids : b \in DOMAIN NodesByName /\ NodesByName[b] = BaseOids[b]

\* the names the body declares with a construct that writes nodes
NodeDeclaredNames == { DeclName(j) : j \in { k \in DeclPositions : KeywordAt(k) \in NodeKeywords } }

(***************************************************************************)
(* C8, amended.  After a successful Parse each of the ten bootstrap names  *)
(* is a key of nodes, and maps to its canonical OID unless the module body *)
(* itself declares that name as an OID alias, OBJECT-TYPE,                 *)
(* MODULE-IDENTITY, OBJECT-IDENTITY or group-like construct.               *)
(***************************************************************************)
C8_BootstrapUnlessDeclared ==
  Done =>
    \A b \in DOMAIN BaseOids :
      /\ b \in DOMAIN NodesByName
      /\ NodesByName[b] = BaseOids[b] \/ b \in NodeDeclaredNames

\* a parse is done whose body declared the bootstrap name org anew, with
\* another OID, and the nine other bootstrap names kept their canonical OIDs
C8_BodyOverBootstrap ==
  /\ Done
  /\ "org" \in NodeDeclaredNames
  /\ NodesByName["org"] # BaseOids["org"]
  /\ \A b \in (DOMAIN BaseOids) \ {"org"} : NodesByName[b] = BaseOids[b]

(***************************************************************************)
(* C9.  After a successful Parse of a module with all fixed tokens, for    *)
(* every record of objects, objectIdentities, notificationTypes and        *)
(* moduleIdentity, nodes[name] is the OID of the record.  Fails for        *)
(* notification types, whose OID the tokenized pass never writes to nodes. *)
(***************************************************************************)
C9_NodesMatchRecords ==
  (Done /\ Framed) =>
    /\ \A n \in DOMAIN ObjectsByName :
         n \in DOMAIN NodesByName /\ NodesByName[n] = ObjectsByName[n].OID
    /\ \A n \in DOMAIN ObjectIdentities :
         n \in DOMAIN NodesByName /\ NodesByName[n] = ObjectIdentities[n].OID
    /\ \A n \in DOMAIN NotificationTypes :
         n \in DOMAIN NodesByName /\ NodesByName[n] = NotificationTypes[n].OID
    /\ \A i \in 1..Len(ModuleIdentity) :
         /\ ModuleIdentity[i].Name \in DOMAIN NodesByName
         /\ NodesByName[ModuleIdentity[i].Name] = ModuleIdentity[i].OID

(***************************************************************************)
(* C10.  Parse succeeds only when the module name, DEFINITIONS, '::=',     *)
(* BEGIN and the trailing END are all there; when one is absent Parse      *)
(* fails.  Fails for a module whose text ends without END.                 *)
(***************************************************************************)
C10_FixedTokensRequired == Done => Framed

(***************************************************************************)
(* C11.  Every Parse call ends in exactly one of two outcomes: a Module    *)
(* and no error, or no Module and one error whose message reads            *)
(* 'parse error at <line>:<col>: <description>'; before it returns it has  *)
(* returned nothing.                                                       *)
(***************************************************************************)
Returned == pc \in {"done", "failed"}

\* the message begins 'parse error at l:c: ' for a line and a column of the
\* text, and a description follows
HasErrorForm(e) ==
  \E l \in 1..(Len(src) + 1), c \in 1..(Span(src, 1) + 1) :
    LET pre == "parse error at " \o ToString(l) \o ":" \o ToString(c) \o ": "
    IN Len(e) > Len(pre) /\ SubSeq(e, 1, Len(pre)) = pre

C11_OneOutcome ==
  IF Returned
  THEN \/ Len(ret.mod) = 1 /\ ret.err = ""
       \/ Len(ret.mod) = 0 /\ HasErrorForm(ret.err)
  ELSE ret = <<>>

\* Parse has failed after it had stored an OBJECT IDENTIFIER of the body,
\* and returned no Module
C11_FailedAfterStoring ==
  /\ pc = "failed"
  /\ "a" \in DOMAIN NodesByName
  /\ ret.mod = <<>>
  /\ ret.err # ""

(***************************************************************************)
(* C12.  An unrecognized top-level construct whose body is a               *)
(* brace-balanced group, nested braces allowed, is skipped without a parse *)
(* error, and the OID aliases written before and after it are both parsed  *)
(* and resolved to their OIDs.                                             *)
(***************************************************************************)
C12_JunkSkipped ==
  src \in JunkInputs =>
    /\ pc \notin {"error", "failed"}
    /\ Done =>
         \A j \in DeclPositions :
           /\ DeclName(j) \in DOMAIN NodesByName
           /\ NodesByName[DeclName(j)] = ChainOid(DeclName(j))

\* the parse of a module with nested braces between the two aliases is done
\* and holds both aliases with their OIDs
C12_BothSidesResolved ==
  /\ Done
  /\ src \in JunkInputs
  /\ \E k \in 1..Len(src) : src[k].Text = "garbage"
  /\ DeclaredNames = {"b", "c"}
  /\ {"b", "c"} \subseteq DOMAIN NodesByName
  /\ NodesByName["c"] = <<1, 3, 6, 1, 2, 1, 7>>
  /\ NodesByName["b"] = <<1, 3, 6, 1, 2, 1, 7, 1>>

(***************************************************************************)
(* C13.  An END in the module body ends the module only when EOF follows   *)
(* it: the body loop is left only with the parser at EOF.  An END followed *)
(* by another token, alone or closing a MACRO body, is passed over, and    *)
(* the declaration written after it is parsed: it is in the symbol table   *)
(* with the OID its bootstrap parent gives it.  Stated for declarations    *)
(* whose name the source declares once.                                    *)
(***************************************************************************)
BodyStart == Len(FullHeader) + 1

\* the declaration at j directly follows an END that opens the body, or the
\* END of a MACRO definition that opens the body
AfterInnerEnd(j) ==
  /\ j \in DeclPositions
  /\ IsWord(j - 1, "END")
  /\ \/ j - 1 = BodyStart
     \/ /\ j - 1 = BodyStart + Len(Macro("M")) - 1
        /\ IsWord(BodyStart + 1, "MACRO")

C13_InnerEndPassedOver ==
  /\ pc \in {"resolve", "augment", "done"} => isType(pos, "EOF")
  /\ (Done /\ Framed) =>
       \A j \in DeclPositions :
         (AfterInnerEnd(j) /\ Symbolic(j) /\ DeclaredOnce(j)
            /\ DeclName(j) \notin DOMAIN BaseOids /\ DeclParent(j) \in DOMAIN BaseOids) =>
           /\ DeclName(j) \in (DOMAIN NodesByName) \cup KindKeys
           /\ DeclOid(j) = BaseOids[DeclParent(j)] \o <<DeclIndex(j)>>

\* a parse is done in which an OBJECT-TYPE written after the END of a MACRO
\* body is in objects with its OID
C13_ObjectAfterMacroEnd ==
  /\ Done
  /\ Framed
  /\ IsWord(BodyStart + 1, "MACRO")
  /\ \E j \in DeclPositions :
       /\ AfterInnerEnd(j)
       /\ KeywordAt(j) = "OBJECT-TYPE"
       /\ DeclName(j) \in DOMAIN ObjectsByName
       /\ DeclParent(j) \in DOMAIN BaseOids
       /\ ObjectsByName[DeclName(j)].OID = BaseOids[DeclParent(j)] \o <<DeclIndex(j)>>

(***************************************************************************)
(* C14.  Parse terminates on every input: it always reaches a success or   *)
(* an error result.  Every round of the dispatcher loop, with the clause,  *)
(* list and skip loops it runs, consumes at least one token or leaves the  *)
(* loop, and every pass over the pending references shortens the queue or  *)
(* leaves the loop.                                                        *)
(***************************************************************************)
\* a step that stays in the body loop has moved on in the text; a step that
\* stays in the pending loop has shortened the queue
LoopProgress ==
  /\ (pc = "body" /\ pc' = "body") => pos' > pos
  /\ (pc = "resolve" /\ pc' = "resolve") => Len(pend') < Len(pend)

Returns == IF Returned THEN Append(results, Outcome) ELSE results

\* the OIDs a module records, by index and key
OidsOf(m) ==
  [nodes |-> m.NodesByName,
   objects |-> [k \in DOMAIN m.ObjectsByName |-> m.ObjectsByName[k].OID],
   identity |-> [k \in DOMAIN m.ModuleIdentity |-> m.ModuleIdentity[k].OID],
   identities |-> [k \in DOMAIN m.ObjectIdentities |-> m.ObjectIdentities[k].OID],
   conventions |-> DOMAIN m.TextualConventions,
   notifications |-> [k \in DOMAIN m.NotificationTypes |-> m.NotificationTypes[k].OID]]

SameOutcome(r1, r2) ==
  \/ Len(r1.mod) = 0 /\ Len(r2.mod) = 0
  \/ Len(r1.mod) = 1 /\ Len(r2.mod) = 1 /\ OidsOf(r1.mod[1]) = OidsOf(r2.mod[1])

C15_Deterministic ==
  \A i, j \in DOMAIN Returns :
    Returns[i].input = Returns[j].input => SameOutcome(Returns[i].out, Returns[j].out)

\* the chain module has been parsed twice, and both calls resolved the leaf
\* below the placeholder of its parent
C15_ChainParsedTwice ==
  /\ Len(Returns) = 3
  /\ Returns[1].input = Returns[3].input
  /\ Len(Returns[1].out.mod) = 1
  /\ Len(Returns[3].out.mod) = 1
  /\ "c" \in DOMAIN Returns[3].out.mod[1].NodesByName
  /\ "a" \in DOMAIN Returns[1].out.mod[1].ObjectsByName
  /\ "a" \in DOMAIN Returns[3].out.mod[1].ObjectsByName
  /\ Returns[1].out.mod[1].ObjectsByName["a"].OID = <<2>>
  /\ Returns[3].out.mod[1].ObjectsByName["a"].OID = <<2>>

(***************************************************************************)
(* C16.  Parse calls share no mutable state: whatever calls were made      *)
(* before or run concurrently, a call returns what it returns when it runs *)
(* alone; a call whose module declares a bootstrap name anew does not      *)
(* change the bootstrap OIDs another call starts with.                     *)
(***************************************************************************)
\* the first call of a run is made alone
C16_CallsIndependent ==
  /\ \A i \in DOMAIN Returns :
       Returns[i].input = Returns[1].input => Returns[i].out = Returns[1].out
  /\ pc = "header" => NodesByName = BaseOids

\* the second call on an input that refers to mib-2 has returned while the
\* call that declared mib-2 anew is still under way
C16_ReturnedBesideRedefinition ==
  /\ Len(results) = 1
  /\ Done
  /\ src = results[1].input
  /\ parked # <<>>
  /\ "mib-2" \in DOMAIN parked[1].NodesByName
  /\ parked[1].NodesByName["mib-2"] = <<1, 9>>
  /\ "c" \in DOMAIN NodesByName
  /\ NodesByName["c"] = <<1, 3, 6, 1, 2, 1, 7>>

(***************************************************************************)
(* C17.  The dotted rendering of an OID joins the components with '.',     *)
(* has no dot at its start or end, and is the empty string for the empty   *)
(* OID; for a non-empty OID of non-negative integers, splitting the        *)
(* rendering on '.' and parsing every part as a decimal gives the OID back.*)
(***************************************************************************)
RECURSIVE splitFrom(_, _, _, _)
\* strings.Split(s, "."), from the i-th character on
splitFrom(s, i, part, parts) ==
  IF i > Len(s) THEN Append(parts, part)
  ELSE IF SubSeq(s, i, i) = "." THEN splitFrom(s, i + 1, "", Append(parts, part))
  ELSE splitFrom(s, i + 1, part \o SubSeq(s, i, i), parts)

Split(s) == splitFrom(s, 1, "", <<>>)

RECURSIVE atoiFrom(_, _, _)
\* the decimal value of the digits from the i-th character on; -1 when a
\* character is no digit
atoiFrom(s, i, n) ==
  IF i > Len(s) THEN n
  ELSE IF \E d \in 0..9 : digit(d) = SubSeq(s, i, i)
  THEN atoiFrom(s, i + 1, n * 10 + (CHOOSE d \in 0..9 : digit(d) = SubSeq(s, i, i)))
  ELSE 0 - 1

\* strconv.Atoi on a part without a sign; -1 for an error
Atoi(s) == IF Len(s) = 0 THEN 0 - 1 ELSE atoiFrom(s, 1, 0)

\* s split on '.' and every part parsed as a decimal
ParseDotted(s) == LET parts == Split(s) IN [i \in 1..Len(parts) |-> Atoi(parts[i])]

\* the number of dots in s
Dots(s) == Cardinality({i \in 1..Len(s) : SubSeq(s, i, i) = "."})

WellJoined(q, s) ==
  IF Len(q) = 0 THEN s = ""
  ELSE /\ Len(s) > 0
       /\ SubSeq(s, 1, 1) # "."
       /\ SubSeq(s, Len(s), Len(s)) # "."
       /\ Dots(s) = Len(q) - 1

C17_RenderingRoundTrip ==
  /\ apiOut.text # <<>> => WellJoined(apiQuery, apiOut.text[1])
  /\ apiOut.dotted # <<>> => WellJoined(apiQuery, apiOut.dotted[1])
  /\ Len(apiQuery) > 0 =>
       /\ apiOut.text # <<>> => ParseDotted(apiOut.text[1]) = apiQuery
       /\ apiOut.dotted # <<>> => ParseDotted(apiOut.dotted[1]) = apiQuery

\* an OID with a zero and a number of three digits has been rendered both
\* ways
C17_RenderedBothWays ==
  /\ apiQuery = <<10, 0, 128>>
  /\ apiOut.text = <<"10.0.128">>
  /\ apiOut.dotted = <<"10.0.128">>
  /\ ParseDotted("10.0.128") = apiQuery

(***************************************************************************)
(* C18.  GetObjectByOID(q) reports found exactly when an object of the     *)
(* module has an OID equal to q component by component, and the object it  *)
(* returns has the OID q; GetObjectByOIDString gives the same found or     *)
(* not-found answer for the dotted rendering of q.                         *)
(***************************************************************************)
C18_LookupByOid ==
  /\ apiOut.byOid # <<>> =>
       /\ apiOut.byOid[1].found <=>
            \E n \in DOMAIN apiObjects :
              /\ Len(apiObjects[n].OID) = Len(apiQuery)
              /\ \A i \in 1..Len(apiQuery) : apiObjects[n].OID[i] = apiQuery[i]
       /\ apiOut.byOid[1].found => apiOut.byOid[1].obj[1].OID = apiQuery
  /\ (apiOut.byOid # <<>> /\ apiOut.byString # <<>>) =>
       apiOut.byString[1].found = apiOut.byOid[1].found

\* both lookups found an object under an OID that two objects share, and
\* not the same one
C18_FoundEitherWay ==
  /\ apiOut.byOid # <<>>
  /\ apiOut.byString # <<>>
  /\ apiOut.byOid[1].found
  /\ apiOut.byString[1].found
  /\ apiOut.byOid[1].obj[1].Name # apiOut.byString[1].obj[1].Name
  /\ apiQuery = <<7, 10>>

(***************************************************************************)
(* C19.  No OID is computed from an empty base: a declaration's OID is set *)
(* to the parent's OID with the index appended only when the parent's OID  *)
(* in the node map is not empty; a pending reference whose parent is in    *)
(* the node map only as an empty placeholder does not fire.                *)
(***************************************************************************)
C19_NoEmptyBase == \A i \in DOMAIN fired : Len(fired[i].base) > 0

(***************************************************************************)
(* C20.  The passes over the pending references end: with P references     *)
(* queued there are at most P + 1 passes, every pass but the last takes at *)
(* least one reference out of the queue, a reference is applied at most    *)
(* once, and the references left when a pass applies none are dropped      *)
(* without an error.                                                       *)
(***************************************************************************)
\* a pass applies the references it takes out of the queue and no other, and
\* goes on to another pass only when it took one out
PassStep ==
  passes' # passes =>
    /\ Len(pend') + Len(fired') = Len(pend) + Len(fired)
    /\ Len(fired') >= Len(fired)
    /\ pc' = "resolve" => Len(pend') < Len(pend)
    /\ pc' # "resolve" => (pend' = pend /\ pc' = "augment" /\ err' = "")

\* outside the passes the queue of a resolution under way is left alone
QueueStep == (passes' = passes /\ pc = "resolve") => (pend' = pend /\ fired' = fired)

C20_PassesEnd ==
  /\ [][PassStep /\ QueueStep]_vars
  /\ [](passes <= Len(pend) + Len(fired) + 1)
  /\ [](Done => (ret.err = "" /\ Len(ret.mod) = 1))
  /\ (pc = "resolve") ~> Done

\* Parse returned a module after two passes, the second of which applied
\* nothing and left a reference in the queue
C20_LeftoverDropped ==
  /\ Done
  /\ passes = 2
  /\ Len(fired) = 1
  /\ Len(pend) = 1
  /\ ret.err = ""

(***************************************************************************)
(* C21.  The syntax text captured for a TEXTUAL-CONVENTION, in either      *)
(* entry form, ends at the next top-level declaration: it holds no token   *)
(* of that declaration, and that declaration is recorded under its own     *)
(* name.  Stated for the declarations of the OID-bearing kinds that follow *)
(* a TEXTUAL-CONVENTION whose name the source defines once.  Fails: the    *)
(* syntax text runs on to the next clause keyword or '::=', through the    *)
(* name and the keyword of the next declaration.                           *)
(***************************************************************************)
\* a TEXTUAL-CONVENTION definition starts at the t-th token
TcStart(t) ==
  /\ t + 1 <= Len(src)
  /\ src[t].Type = "Ident"
  /\ \/ IsWord(t + 1, "TEXTUAL-CONVENTION")
     \/ src[t + 1].Type = "ColonColonEq" /\ IsWord(t + 2, "TEXTUAL-CONVENTION")

TcStarts == { t \in 1..Len(src) : TcStart(t) }

\* the position of the first SYNTAX after the t-th token, 0 when there is none
SyntaxAfter(t) ==
  LET ks == { k \in (t + 1)..Len(src) : IsWord(k, "SYNTAX") }
  IN IF ks = {} THEN 0 ELSE CHOOSE k \in ks : \A l \in ks : k <= l

RECURSIVE TextOf(_, _)
\* the tokens a..b of the source, written with single spaces between them
TextOf(a, b) ==
  IF a > b THEN ""
  ELSE IF a = b THEN Piece(src[a])
  ELSE TextOf(a, b - 1) \o " " \o Piece(src[b])

\* the declaration at j is the first one after the TEXTUAL-CONVENTION at t
FollowsTc(t, j) ==
  /\ t \in TcStarts
  /\ j \in DeclPositions
  /\ SyntaxAfter(t) # 0
  /\ SyntaxAfter(t) < j
  /\ \A k \in (t + 1)..(j - 1) : k \notin DeclPositions /\ k \notin TcStarts
  /\ \A t2 \in TcStarts : src[t2].Text = src[t].Text => t2 = t

C21_SyntaxEndsAtDeclaration ==
  (Done /\ Framed) =>
    \A t \in TcStarts, j \in DeclPositions :
      (t = BodyStart /\ FollowsTc(t, j)) =>
        /\ src[t].Text \in DOMAIN TextualConventions
        /\ TextualConventions[src[t].Text].Syntax = TextOf(SyntaxAfter(t) + 1, j - 1)
        /\ InItsIndex(j)

(***************************************************************************)
(* C22.  The skip of an unrecognized top-level construct, or of a '::='    *)
(* definition other than a TEXTUAL-CONVENTION, that holds no '{' ends at   *)
(* the next semicolon or at END: the declaration that follows keeps its    *)
(* tokens, its '::= { parent n }' included, and is parsed and resolved.    *)
(* Stated for the symbolic declaration that follows the construct, with a  *)
(* bootstrap parent and a name declared once.  Fails: the skip ends only   *)
(* at END, at EOF or after the '}' that closes the first '{' it meets,     *)
(* which is the '}' of the declaration that follows.                       *)
(***************************************************************************)
\* a construct the dispatcher skips starts at the t-th token
SkippedStart(t) ==
  /\ t + 1 <= Len(src)
  /\ src[t].Type = "Ident"
  /\ ~IsWord(t, "END")
  /\ \/ /\ src[t + 1].Type = "Ident"
        /\ \A kw \in ConstructKeywords : ~IsWord(t + 1, kw)
     \/ /\ src[t + 1].Type = "ColonColonEq"
        /\ ~IsWord(t + 2, "TEXTUAL-CONVENTION")

\* the declaration at j follows the skipped construct at t, which holds no
\* '{' and no END
FollowsBraceless(t, j) ==
  /\ SkippedStart(t)
  /\ j \in DeclPositions
  /\ t + 1 < j
  /\ \A k \in t..(j - 1) :
       /\ src[k].Type # "LBrace"
       /\ ~IsWord(k, "END")
       /\ k \notin DeclPositions

C22_BracelessSkipEnds ==
  (Done /\ Framed) =>
    \A j \in DeclPositions :
      (/\ FollowsBraceless(BodyStart, j)
       /\ Symbolic(j)
       /\ DeclaredOnce(j)
       /\ DeclName(j) \notin DOMAIN BaseOids
       /\ DeclParent(j) \in DOMAIN BaseOids) =>
        /\ InItsIndex(j)
        /\ DeclOid(j) = BaseOids[DeclParent(j)] \o <<DeclIndex(j)>>

(***************************************************************************)
(* C23.  The clauses SYNTAX, MAX-ACCESS, STATUS, DESCRIPTION and INDEX of  *)
(* an OBJECT-TYPE may stand in any order before '::=': in every order each *)
(* field of the record holds the value of its own clause and no text of    *)
(* another clause.  Fails: the text of ACCESS does not end at SYNTAX, and  *)
(* the text of STATUS ends neither at SYNTAX nor at ACCESS.                *)
(***************************************************************************)
C23_ClausesInAnyOrder ==
  (Done /\ src \in ClauseOrderInputs) =>
    /\ "a" \in DOMAIN ObjectsByName
    /\ ObjectsByName["a"].Syntax = "INTEGER"
    /\ ObjectsByName["a"].Access = "read-only"
    /\ ObjectsByName["a"].Status = "current"
    /\ ObjectsByName["a"].Description = "d"
    /\ ObjectsByName["a"].Index = <<"b">>

RECURSIVE NumberRun(_)
\* the numbers written from the k-th token on, up to the first other token
NumberRun(k) ==
  IF k <= Len(src) /\ src[k].Type = "Number" THEN <<src[k].Int>> \o NumberRun(k + 1) ELSE <<>>

\* the first token between the braces of the declaration at j
RefStart(j) == AssignAfter(j) + 2

\* the '}' that closes the reference of the declaration at j
RefEnd(j) ==
  CHOOSE c \in RefStart(j)..Len(src) :
    src[c].Type = "RBrace" /\ \A l \in RefStart(j)..(c - 1) : src[l].Type # "RBrace"

\* the parent a symbolic reference names, its qualifier set aside
RefParent(j) ==
  IF src[RefStart(j) + 1].Type = "Dot" THEN src[RefStart(j) + 2].Text ELSE src[RefStart(j)].Text

\* the number a symbolic reference carries, 0 when it carries none
RefIndex(j) ==
  LET ns == { i \in RefStart(j)..RefEnd(j) : src[i].Type = "Number" }
  IN IF ns = {} THEN 0 ELSE src[CHOOSE i \in ns : TRUE].Int

\* the OID the reference of the declaration at j is written to give
WrittenOid(j) ==
  IF src[RefStart(j)].Type = "Number" THEN NumberRun(RefStart(j))
  ELSE BaseOids[RefParent(j)] \o <<RefIndex(j)>>

(***************************************************************************)
(* C24: for every construct that ends in '::= { parentRef }' (OID alias,   *)
(* OBJECT-TYPE, MODULE-IDENTITY, OBJECT-IDENTITY, NOTIFICATION-TYPE and    *)
(* the group-like constructs), Parse accepts the declaration and stores as *)
(* its OID the run of numbers written between the braces, or, for the      *)
(* symbolic forms 'p n', 'p ( n )' and 'M.p n', the OID of p extended by   *)
(* n, and by 0 when no number is written.                                  *)
(***************************************************************************)
C24_ReferenceForms ==
  (Returned /\ src \in RefInputs) =>
    /\ Done
    /\ \A j \in DeclPositions : InItsIndex(j) /\ DeclOid(j) = WrittenOid(j)

\* the same for the constructs other than the group-like ones
C24_ReferenceFormsUngrouped ==
  (Returned /\ src \in RefInputs) =>
    \A j \in DeclPositions :
      KeywordAt(j) \notin GroupKeywords =>
        Done /\ InItsIndex(j) /\ DeclOid(j) = WrittenOid(j)

\* the same for the symbolic forms in the group-like constructs
C24_ReferenceFormsSymbolic ==
  (Returned /\ src \in RefInputs) =>
    \A j \in DeclPositions :
      src[RefStart(j)].Type # "Number" =>
        Done /\ InItsIndex(j) /\ DeclOid(j) = WrittenOid(j)

\* the position of the '{' that opens the INDEX list
IndexOpen == (CHOOSE k \in 1..Len(src) : IsWord(k, "INDEX")) + 1

\* the position of the '}' that closes the INDEX list
IndexClose ==
  CHOOSE c \in (IndexOpen + 1)..Len(src) :
    src[c].Type = "RBrace" /\ \A l \in (IndexOpen + 1)..(c - 1) : src[l].Type # "RBrace"

\* the token at i is the IMPLIED keyword
IsImplied(i) == IsWord(i, "IMPLIED")

\* the token at i is an entry of the list: an identifier other than IMPLIED
IsEntry(i) == src[i].Type = "Ident" /\ ~IsImplied(i)

\* the token at i stands where an entry is expected
EntryPosition(i) == i = IndexOpen + 1 \/ src[i - 1].Type = "Comma" \/ IsImplied(i - 1)

\* the list has an entry followed by a token other than ',' or '}', or a
\* non-identifier other than '}' where an entry is expected
IndexMalformed ==
  \E i \in (IndexOpen + 1)..(IndexClose - 1) :
    \/ EntryPosition(i) /\ src[i].Type # "Ident"
    \/ i > IndexOpen + 1 /\ IsEntry(i - 1) /\ src[i].Type # "Comma"

RECURSIVE EntriesFrom(_)
\* the entries written from the i-th token on, in their written order
EntriesFrom(i) ==
  IF i >= IndexClose THEN <<>>
  ELSE IF IsEntry(i) THEN <<src[i].Text>> \o EntriesFrom(i + 1)
  ELSE EntriesFrom(i + 1)

\* the text e ends with the text m
EndsWith(e, m) == Len(e) >= Len(m) /\ SubSeq(e, Len(e) - Len(m) + 1, Len(e)) = m

(***************************************************************************)
(* C25: the INDEX clause of an OBJECT-TYPE stores the listed identifiers   *)
(* in their written order; an IMPLIED keyword is consumed and not stored,  *)
(* and the entry after it is stored as a plain name; Parse fails when an   *)
(* entry is followed by a token other than ',' or '}' and when a           *)
(* non-identifier other than '}' stands where an entry is expected.        *)
(***************************************************************************)
C25_IndexList ==
  (Returned /\ src \in IndexInputs) =>
    IF IndexMalformed
    THEN /\ pc = "failed"
         /\ \/ EndsWith(ret.err, "expected ',' or '}' in INDEX list")
            \/ EndsWith(ret.err, "expected identifier in INDEX list")
    ELSE /\ Done
         /\ "a" \in DOMAIN ObjectsByName
         /\ ObjectsByName["a"].Index = EntriesFrom(IndexOpen + 1)

\* Parse has stored the entry written after an IMPLIED keyword
C25_ImpliedEntryStored ==
  /\ Done
  /\ src \in IndexInputs
  /\ \E i \in (IndexOpen + 1)..(IndexClose - 1) : IsImplied(i)
  /\ "a" \in DOMAIN ObjectsByName
  /\ Len(ObjectsByName["a"].Index) > 0

\* every entry of the map before is in the map after, with the same value
Kept(before, after) ==
  \A k \in DOMAIN before : k \in DOMAIN after /\ after[k] = before[k]

\* every entry of the map after that the map before has not is a sequence
\* that is empty
AddedEmpty(before, after) ==
  \A k \in (DOMAIN after) \ (DOMAIN before) : after[k] = <<>>

\* every record of the map after that the map before has not has the empty OID
AddedBlank(before, after) ==
  \A k \in (DOMAIN after) \ (DOMAIN before) : after[k].OID = <<>> /\ after[k].Name = k

(***************************************************************************)
(* C26: the source sweep only adds.  Every nodes entry and every record    *)
(* that exists after the tokenized pass and the resolution of the pending  *)
(* references is left unchanged by augmentFromSource (same key, same OID,  *)
(* same fields), and every entry it inserts has an empty OID.              *)
(***************************************************************************)
C26_SweepOnlyAdds ==
  [][pc = "augment" =>
       /\ Kept(NodesByName, NodesByName') /\ AddedEmpty(NodesByName, NodesByName')
       /\ Kept(ObjectsByName, ObjectsByName') /\ AddedBlank(ObjectsByName, ObjectsByName')
       /\ Kept(ObjectIdentities, ObjectIdentities')
       /\ AddedBlank(ObjectIdentities, ObjectIdentities')
       /\ Kept(NotificationTypes, NotificationTypes')
       /\ AddedBlank(NotificationTypes, NotificationTypes')
       /\ ModuleIdentity' = ModuleIdentity
       /\ TextualConventions' = TextualConventions]_vars

\* the sweep has met a resolved OID alias and a parsed NOTIFICATION-TYPE, has
\* kept both, and has inserted the nodes entry of the NOTIFICATION-TYPE
C26_SweptBesideParsed ==
  /\ Done
  /\ \E j \in DeclPositions :
       /\ KeywordAt(j) = "OBJECT"
       /\ DeclName(j) \in reObjId(Cleaned(src))
       /\ DeclName(j) \in DOMAIN NodesByName
       /\ Len(NodesByName[DeclName(j)]) > 1
  /\ \E n \in reNotif(Cleaned(src)) :
       /\ n \in DOMAIN NotificationTypes
       /\ Len(NotificationTypes[n].OID) > 0
       /\ n \in DOMAIN NodesByName
       /\ NodesByName[n] = <<>>

RECURSIVE uncommentFrom(_, _, _)
\* the text from its i-th rune on without its comments: in the mode "code" a
\* quote opens a string literal and '--' opens a comment, in the mode
\* "string" a quote closes the literal, and in the mode "comment" the runes
\* up to the end of the line are left out
uncommentFrom(text, i, mode) ==
  IF i > Len(text) THEN ""
  ELSE LET r == SubSeq(text, i, i)
           two == SubSeq(text, i, i + 1)
       IN CASE mode = "comment" ->
                 IF r = "\n" THEN r \o uncommentFrom(text, i + 1, "code")
                 ELSE uncommentFrom(text, i + 1, "comment")
            [] mode = "string" ->
                 r \o uncommentFrom(text, i + 1, IF r = "\"" THEN "code" ELSE "string")
            [] OTHER ->
                 IF i < Len(text) /\ two = "--" THEN uncommentFrom(text, i + 2, "comment")
                 ELSE r \o uncommentFrom(text, i + 1, IF r = "\"" THEN "string" ELSE "code")

\* the text without the comments that lie outside its string literals
Uncomment(text) == uncommentFrom(text, 1, "code")

RECURSIVE tokensFrom(_)
\* the tokens Next returns from the lexer l on, up to the first EOF
tokensFrom(l) ==
  LET r == scan(l)
  IN IF r.tok.Type = "EOF" THEN <<r.tok>> ELSE <<r.tok>> \o tokensFrom(r.l)

\* a token without its position
Bare3(tok) == [Type |-> tok.Type, Text |-> tok.Text, Int |-> tok.Int]

\* the token stream of a whole text, positions set aside
TokensOf(text) == LET ts == tokensFrom(New(text)) IN [i \in 1..Len(ts) |-> Bare3(ts[i])]

\* the tokens Next has returned, positions set aside
Returned3 == [i \in 1..Len(stream) |-> Bare3(stream[i].tok)]

(***************************************************************************)
(* C27: the runes from a '--' that lies outside a string literal up to the *)
(* end of its line contribute to no token: once Next has returned EOF, the *)
(* tokens it has returned are those of the text with its comments removed, *)
(* also when the '--' directly follows an identifier rune.                 *)
(***************************************************************************)
C27_CommentsYieldNoToken ==
  AtEnd => Returned3 = TokensOf(Uncomment(lex.input))

\* the same when no '--' directly follows a letter, a digit or a '-'
C27_CommentsAtTokenStart ==
  (AtEnd /\ \A i \in 2..(Len(lex.input) - 1) :
              SubSeq(lex.input, i, i + 1) = "--"
                => ~isIdentRune(SubSeq(lex.input, i - 1, i - 1)))
    => Returned3 = TokensOf(Uncomment(lex.input))

\* the line of the rune at the offset at: one more than the newlines before it
LineOf(text, at) == 1 + Cardinality({ i \in 1..at : SubSeq(text, i, i) = "\n" })

\* the column of the rune at the offset at: its distance from the last
\* newline before it, or from the start of the text
ColOf(text, at) ==
  LET nls == { i \in 1..at : SubSeq(text, i, i) = "\n" }
  IN IF nls = {} THEN at + 1
     ELSE at + 1 - (CHOOSE i \in nls : \A k \in nls : k <= i)

(***************************************************************************)
(* C28: every token Next returns, of every kind, carries the line and the  *)
(* column of its first rune, with columns counted from 1 and reset to 1    *)
(* after each newline; EOF carries the position of the end of the text.    *)
(***************************************************************************)
C28_TokenAtFirstRune ==
  \A i \in 1..Len(stream) :
    /\ stream[i].tok.Line = LineOf(lex.input, stream[i].at)
    /\ stream[i].tok.Col = ColOf(lex.input, stream[i].at)

\* the same for the identifiers, the numbers, the strings and EOF
C28_StartedTokensAtFirstRune ==
  \A i \in 1..Len(stream) :
    stream[i].tok.Type \in {"Ident", "Number", "String", "EOF"} =>
      /\ stream[i].tok.Line = LineOf(lex.input, stream[i].at)
      /\ stream[i].tok.Col = ColOf(lex.input, stream[i].at)

\* the objects of the module that match the query of GetObjectByOID
OidHits == { n \in DOMAIN apiObjects : oidsEqual(apiObjects[n].OID, apiQuery) }

\* the objects of the module that match the query of GetObjectByOIDString
StringHits ==
  { n \in DOMAIN apiObjects : oidToString(apiObjects[n].OID) = oidToString(apiQuery) }

(***************************************************************************)
(* C29: for a fixed module and a fixed query, GetObjectByOID and           *)
(* GetObjectByOIDString return the same object on every call: at most one  *)
(* object matches the query, so the object a call has returned is the only *)
(* one a call can return, also for the empty OID and the empty string in a *)
(* module that holds unresolved objects with empty OIDs.                   *)
(***************************************************************************)
C29_OneAnswer ==
  /\ apiOut.byOid # <<>> =>
       /\ Cardinality(OidHits) <= 1
       /\ \A n \in OidHits : apiOut.byOid[1] = Found(apiObjects[n])
  /\ apiOut.byString # <<>> =>
       /\ Cardinality(StringHits) <= 1
       /\ \A n \in StringHits : apiOut.byString[1] = Found(apiObjects[n])

\* Parse returns no module in which two OBJECT-TYPE records have one OID
C29_RecordsApart ==
  Done => \A m, n \in DOMAIN ObjectsByName :
            ObjectsByName[m].OID = ObjectsByName[n].OID => m = n

\* the declaration at j is the last one of its name, and not the only one
LastOfSeveral(j) ==
  /\ ~DeclaredOnce(j)
  /\ \A k \in DeclPositions : DeclName(k) = DeclName(j) => k <= j

\* the OID the declaration at j gives under its bootstrap parent
OwnOid(j) == BaseOids[DeclParent(j)] \o <<DeclIndex(j)>>

(***************************************************************************)
(* C30: when a name is declared more than once, the record and the nodes   *)
(* entry left under it after Parse are those of the declaration written    *)
(* last, whichever of the declarations was resolved at once and whichever  *)
(* waited in the pending queue.  Stated for a last declaration whose       *)
(* parent is a bootstrap name, so that its OID is known from the text.     *)
(***************************************************************************)
C30_LastDeclarationWins ==
  (Done /\ src \in RedeclInputs) =>
    \A j \in DeclPositions :
      (LastOfSeveral(j) /\ DeclParent(j) \in DOMAIN BaseOids) =>
        /\ DeclName(j) \in DOMAIN NodesByName
        /\ NodesByName[DeclName(j)] = OwnOid(j)
        /\ KeywordAt(j) = "OBJECT-TYPE" =>
             /\ DeclName(j) \in DOMAIN ObjectsByName
             /\ ObjectsByName[DeclName(j)].OID = OwnOid(j)

\* the same when no earlier declaration of the name waits for a parent that
\* the module declares
C30_LastWinsOverResolved ==
  (Done /\ src \in RedeclInputs) =>
    \A j \in DeclPositions :
      (/\ LastOfSeveral(j)
       /\ DeclParent(j) \in DOMAIN BaseOids
       /\ \A k \in DeclPositions :
            DeclName(k) = DeclName(j) => DeclParent(k) \notin DeclaredNames) =>
        /\ DeclName(j) \in DOMAIN NodesByName
        /\ NodesByName[DeclName(j)] = OwnOid(j)
        /\ KeywordAt(j) = "OBJECT-TYPE" =>
             /\ DeclName(j) \in DOMAIN ObjectsByName
             /\ ObjectsByName[DeclName(j)].OID = OwnOid(j)

====
